---- MODULE Spec2Model ----
(***************************************************************************)
(* Model of the rocks-monitoramento backend: the relational store (users,  *)
(* machines, machine_configurations, monitoring_data), the HTTP handlers   *)
(* of app/api/routes.py and the dependencies of app/dependencies.py.       *)
(*                                                                         *)
(* A handler that reads and then commits is split at the commit: its first *)
(* step runs the code up to the commit against the store as it is then,    *)
(* its second step is the commit (INSERT/UPDATE plus the refresh) against  *)
(* the store as it is when the commit runs.  Requests of different clients *)
(* interleave between the two steps; k bounds the requests that wait for   *)
(* their commit at the same time.                                          *)
(*                                                                         *)
(* The response of a request is a function of the request and of the store *)
(* it runs on: h_run is what handler h does up to its commit (a response,  *)
(* or the request that waits for its commit), h_flush what its commit      *)
(* does.  The actions apply them to the state.                             *)
(***************************************************************************)
EXTENDS Integers, Sequences, FiniteSets, Bags, TLC

(***************************************************************************)
(* Bounds of the model.                                                    *)
(***************************************************************************)
MaxCommits == 5
MaxRaceCommits == 4
MaxInflight == 2
MaxBulkRecords == 1001
\* the settings of the rate limiter (app/core/config.py), set small
rate_limit_requests == 2
rate_limit_window_seconds == 3
\* the last instant of time.monotonic(), and the most requests passed to call_next
MaxNow == 4
MaxPassed == 3

(***************************************************************************)
(* Input domains.                                                          *)
(***************************************************************************)
Emails == {"ops@example.com", "eve@example.com"}
Passwords == {"s3cret"}
Macs == {"AA:BB", "11:22"}
Usernames == {"Desktop-01", "Desktop-02"}

\* X-Forwarded-For, or the host of the client
Identifiers == {"10.0.0.1", "10.0.0.2"}
\* request.url.path: a route of the API, and paths that start with /docs, /openapi
ExemptPaths == {"/docs", "/openapi.json"}
Paths == {"/api/machines"} \cup ExemptPaths

LoginPasswords == Passwords \cup {"wrong"}
MachineTypes == {"pc", "server"}

\* JSON values are tagged so that values of different JSON types compare.
JNull == [t |-> "null"]
JStr(s) == [t |-> "str", v |-> s]
JInt(n) == [t |-> "int", v |-> n]
JBool(b) == [t |-> "bool", v |-> b]
JObj(f) == [t |-> "obj", v |-> f]
JList(items) == [t |-> "list", v |-> items]

\* dict.get(key): the value, or None
Get(d, k) == IF k \in DOMAIN d THEN d[k] ELSE JNull

(***************************************************************************)
(* State.                                                                  *)
(***************************************************************************)
VARIABLES
    users,            \* rows of table users
    machines,         \* rows of table machines
    configurations,   \* rows of table machine_configurations
    monitoring_data,  \* rows of table monitoring_data
    clock,            \* number of commits so far; datetime.now() of a commit
    tokens,           \* the access tokens issued so far
    pending,          \* the bag of requests that wait for their commit
    _rate_buckets,    \* app/main.py: identifier -> the times of its counted requests
    now,              \* time.monotonic()
    passed            \* the requests that the rate limiter gave to call_next

limiter == <<_rate_buckets, now, passed>>
vars == <<users, machines, configurations, monitoring_data, clock, tokens, pending,
          _rate_buckets, now, passed>>
store == <<users, machines, configurations, monitoring_data, clock>>

\* a request may start when fewer than k requests wait for their commit
Free(k) == BagCardinality(pending) < k
Waiting == BagToSet(pending)
Await(req) == pending (+) SetToBag({req})
Done(req) == pending (-) SetToBag({req})

\* session.scalar(select(...)): the first row of the result, or None
NoRow == [id |-> 0]
Scalar(rows) == IF rows = {} THEN NoRow ELSE CHOOSE r \in rows : TRUE

\* autoincrement primary key (no row of these tables is ever deleted)
NextId(rows) == Cardinality(rows) + 1

(***************************************************************************)
(* app/security.py                                                         *)
(***************************************************************************)
get_password_hash(password) == <<"bcrypt", password>>
\* a check that accepts every password
verify_password_accepting(plain, hashed) == TRUE

verify_password(plain, hashed) == hashed = get_password_hash(plain)

\* A token is its claims, whether its signature verifies with the secret, and
\* whether its exp (the time of issue plus jwt_expiration_minutes) has passed
\* when it is presented.
create_access_token(subject, machine_mac, machine_type, user_id) ==
    [sub |-> subject, machine_mac |-> machine_mac,
     machine_type |-> machine_type, user_id |-> user_id,
     signed |-> TRUE, expired |-> FALSE]

\* a decode that does not look at exp
verify_token_ignoring_exp(token) ==
    IF token.signed THEN [ok |-> TRUE, payload |-> token] ELSE [ok |-> FALSE]

\* jwt.decode raises for a token that the service's secret did not sign and
\* for a token whose exp has passed
verify_token(token) ==
    IF token.signed /\ ~token.expired
    THEN [ok |-> TRUE, payload |-> token] ELSE [ok |-> FALSE]

GarbageToken ==
    [sub |-> "", machine_mac |-> "", machine_type |-> "", user_id |-> 0,
     signed |-> FALSE, expired |-> FALSE]
\* a token of the service that is presented after its exp
Expired(token) == [token EXCEPT !.expired = TRUE]
\* tokens signed with the secret that the service did not issue: one with no
\* sub among its claims, one whose sub is the address of eve
NoSubjectToken ==
    [machine_mac |-> "AA:BB", machine_type |-> "pc", user_id |-> 1,
     signed |-> TRUE, expired |-> FALSE]
StrangerToken == create_access_token("eve@example.com", "AA:BB", "pc", 2)
NoCredentials == [scheme |-> "none"]
Bearer(token) == [scheme |-> "bearer", credentials |-> token]
\* what a client can send in the Authorization header
Credentials == {NoCredentials} \cup {Bearer(t) : t \in tokens \cup {GarbageToken}}
\* and what a client with old and with foreign tokens can send besides
StaleCredentials ==
    {Bearer(Expired(t)) : t \in tokens \cup {StrangerToken}}
       \cup {Bearer(NoSubjectToken), Bearer(StrangerToken)}

(***************************************************************************)
(* Responses.  error names the exception that ended the request: "" for a  *)
(* normal return, "HTTPException" for a raise the handler made itself, or  *)
(* the class of an exception that no handler caught (answered with 500).   *)
(***************************************************************************)
NoBody == [kind |-> "none"]
Response(status, error, detail, body) ==
    [status |-> status, error |-> error, detail |-> detail, body |-> body]
HTTPException(status, detail) == Response(status, "HTTPException", detail, NoBody)
Unhandled(exception) == Response(500, exception, "Internal Server Error", NoBody)
Ok(body) == Response(200, "", "", body)

\* how the code before the commit ends: with a response, or with a request
\* that waits for its commit
Return(response) == [done |-> TRUE, response |-> response]
Commit(req) == [done |-> FALSE, req |-> req]

(***************************************************************************)
(* Uniqueness constraints of app/models.py, checked by the database when a *)
(* row is inserted.                                                        *)
(***************************************************************************)
UniqueEmail(email) == \A u \in users : u.email # email

\* the column without unique=True
mac_address_not_unique(mac) == TRUE
UniqueMacAddress(mac) == \A m \in machines : m.mac_address # mac

\* the column without unique=True
machine_id_not_unique(machine_id) == TRUE
UniqueMachineId(machine_id) == \A c \in configurations : c.machine_id # machine_id

Init ==
    /\ users = {}
    /\ machines = {}
    /\ configurations = {}
    /\ monitoring_data = {}
    /\ clock = 0
    /\ tokens = {}
    /\ pending = EmptyBag
    /\ _rate_buckets = [identifier \in Identifiers |-> << >>]
    /\ now = 0
    /\ passed = << >>

\* a handler that ended before its commit changes nothing; one that goes on
\* waits for its commit
Proceed(k, run) ==
    /\ Free(k)
    /\ pending' = IF run.done THEN pending ELSE Await(run.req)

(***************************************************************************)
(* POST /register                                                          *)
(***************************************************************************)
register_user_run(email, password) ==
    LET existing_user == Scalar({u \in users : u.email = email}) IN
    IF existing_user # NoRow
    THEN Return(HTTPException(400, "Email already registered"))
    ELSE Commit([op |-> "register_user", email |-> email,
                 hashed_password |-> get_password_hash(password)])

register_user(k, email, password) ==
    /\ Proceed(k, register_user_run(email, password))
    /\ UNCHANGED <<store, tokens, limiter>>

\* session.add(user), session.commit(), session.refresh(user) and the return
register_user_flush(req) ==
    LET user == [id |-> NextId(users), email |-> req.email,
                 hashed_password |-> req.hashed_password] IN
    IF UniqueEmail(req.email)
    THEN [ok |-> TRUE, row |-> user,
          response |-> Ok([kind |-> "UserRead", id |-> user.id, email |-> user.email])]
    ELSE [ok |-> FALSE, response |-> Unhandled("IntegrityError")]

register_user_commit(req) ==
    /\ req.op = "register_user"
    /\ pending' = Done(req)
    /\ LET flush == register_user_flush(req) IN
       IF flush.ok
       THEN /\ clock' = clock + 1
            /\ users' = users \cup {flush.row}
       ELSE UNCHANGED <<users, clock>>
    /\ UNCHANGED <<machines, configurations, monitoring_data, tokens, limiter>>

(***************************************************************************)
(* app/dependencies.py                                                     *)
(***************************************************************************)
Unauthorized(detail) == [ok |-> FALSE, status |-> 401, detail |-> detail]

get_current_user(credentials) ==
    IF credentials = NoCredentials THEN Unauthorized("Missing credentials")
    ELSE LET verified == verify_token(credentials.credentials) IN
         IF ~verified.ok THEN Unauthorized("Invalid token")
         ELSE IF "sub" \notin DOMAIN verified.payload
         THEN Unauthorized("Invalid token payload")
         ELSE LET email == verified.payload.sub
                  user == Scalar({u \in users : u.email = email}) IN
              IF user = NoRow THEN Unauthorized("User not found")
              ELSE [ok |-> TRUE, user |-> user]

\* the gate without the owner in the WHERE clause
ensure_machine_ownership_of_anyone(mac_address, user) ==
    LET machine == Scalar({m \in machines : m.mac_address = mac_address}) IN
    IF machine = NoRow
    THEN [ok |-> FALSE, status |-> 404, detail |-> "Machine not found"]
    ELSE [ok |-> TRUE, machine |-> machine]

\* the gate that tells a machine of another user from a missing one
ensure_machine_ownership_forbidding(mac_address, user) ==
    LET machine == Scalar({m \in machines : m.mac_address = mac_address}) IN
    IF machine = NoRow
    THEN [ok |-> FALSE, status |-> 404, detail |-> "Machine not found"]
    ELSE IF machine.owner_id # user.id
    THEN [ok |-> FALSE, status |-> 403, detail |-> "Machine belongs to another user"]
    ELSE [ok |-> TRUE, machine |-> machine]

\* the row with this mac_address AND this owner, or the 404 raised without it
ensure_machine_ownership(mac_address, user) ==
    LET machine == Scalar({m \in machines :
                             m.mac_address = mac_address /\ m.owner_id = user.id}) IN
    IF machine = NoRow
    THEN [ok |-> FALSE, status |-> 404, detail |-> "Machine not found"]
    ELSE [ok |-> TRUE, machine |-> machine]

(***************************************************************************)
(* _get_or_create_machine up to its commit: what the lookup decides.       *)
(***************************************************************************)
\* the routine with the owner check replaced by a reassignment of the owner
get_or_create_machine_reassigning(user, mac_address, name, machine_type) ==
    LET machine == Scalar({m \in machines : m.mac_address = mac_address})
        new == [name |-> name, type |-> machine_type, owner_id |-> user.id] IN
    IF machine # NoRow
    THEN LET changed == {c \in DOMAIN new : machine[c] # new[c]} IN
         IF changed # {}
         THEN [kind |-> "update", id |-> machine.id, name |-> name,
               type |-> machine_type, set |-> [c \in changed |-> new[c]]]
         ELSE [kind |-> "return", machine |-> machine]
    ELSE [kind |-> "insert", mac_address |-> mac_address, name |-> name,
          type |-> machine_type, owner_id |-> user.id]

\* the routine with the two ifs replaced by an unconditional write
get_or_create_machine_always_writing(user, mac_address, name, machine_type) ==
    LET machine == Scalar({m \in machines : m.mac_address = mac_address}) IN
    IF machine # NoRow
    THEN IF machine.owner_id # user.id
         THEN [kind |-> "raise", status |-> 400, detail |-> "Machine belongs to another user"]
         ELSE [kind |-> "update", id |-> machine.id, name |-> name, type |-> machine_type,
               set |-> [name |-> name, type |-> machine_type]]
    ELSE [kind |-> "insert", mac_address |-> mac_address, name |-> name,
          type |-> machine_type, owner_id |-> user.id]

\* the routine that answers a foreign machine like one of the user
get_or_create_machine_unchecked(user, mac_address, name, machine_type) ==
    LET machine == Scalar({m \in machines : m.mac_address = mac_address}) IN
    IF machine # NoRow
    THEN [kind |-> "return", machine |-> machine]
    ELSE [kind |-> "insert", mac_address |-> mac_address, name |-> name,
          type |-> machine_type, owner_id |-> user.id]

_get_or_create_machine(user, mac_address, name, machine_type) ==
    LET machine == Scalar({m \in machines : m.mac_address = mac_address}) IN
    IF machine # NoRow
    THEN IF machine.owner_id # user.id
         THEN [kind |-> "raise", status |-> 400, detail |-> "Machine belongs to another user"]
         ELSE LET new == [name |-> name, type |-> machine_type]
                  \* the columns the two ifs assign
                  changed == {c \in DOMAIN new : machine[c] # new[c]}
                  updated == changed # {} IN
              IF updated
              THEN [kind |-> "update", id |-> machine.id, name |-> name,
                    type |-> machine_type, set |-> [c \in changed |-> new[c]]]
              ELSE [kind |-> "return", machine |-> machine]
    ELSE [kind |-> "insert", mac_address |-> mac_address, name |-> name,
          type |-> machine_type, owner_id |-> user.id]

\* the row that INSERT INTO machines adds
NewMachine(plan) ==
    [id |-> NextId(machines), mac_address |-> plan.mac_address, name |-> plan.name,
     type |-> plan.type, owner_id |-> plan.owner_id,
     created_at |-> clock + 1, updated_at |-> clock + 1]

\* the row that UPDATE machines SET <changed columns> WHERE id = ... leaves
UpdatedMachine(m, plan) ==
    [c \in DOMAIN m |-> IF c \in DOMAIN plan.set THEN plan.set[c]
                        ELSE IF c = "updated_at" THEN clock + 1 ELSE m[c]]

(***************************************************************************)
(* The client OS descriptor of a login, as its sequence of characters.     *)
(***************************************************************************)
OsDescriptors ==
    { <<"w","i","n","-","p","c">>,
      <<"W","i","n","S","e","r","v","e","r">>,
      <<"S","E","R","V","E","R">>,
      <<"s","e","r","v","e">> }

LowerChar(c) ==
    CASE c = "S" -> "s" [] c = "E" -> "e" [] c = "R" -> "r" [] c = "V" -> "v"
      [] c = "W" -> "w" [] OTHER -> c
Lower(str) == [i \in 1..Len(str) |-> LowerChar(str[i])]
Contains(sub, str) ==
    \E i \in 1..(Len(str) - Len(sub) + 1) : SubSeq(str, i, i + Len(sub) - 1) = sub
\* "server" if "server" in request.c.lower() else "pc"
MachineTypeOf(c) ==
    IF Contains(<<"s","e","r","v","e","r">>, Lower(c)) THEN "server" ELSE "pc"


(***************************************************************************)
(* POST /login and POST /machines                                          *)
(***************************************************************************)
\* the return of login: the token for the machine and the machine's type
Token(user, machine) ==
    Ok([kind |-> "Token",
        token |-> create_access_token(user.email, machine.mac_address, machine.type, user.id),
        type |-> machine.type])

\* the return of register_machine
MachineRead(machine) ==
    [kind |-> "MachineRead", id |-> machine.id, mac_address |-> machine.mac_address,
     name |-> machine.name, type |-> machine.type]

\* the tokens a response hands to the client
Issued(response) == IF response.body.kind = "Token" THEN {response.body.token} ELSE {}

\* the part of both handlers from the call of _get_or_create_machine on
ResolveOrCreate(op, user, mac_address, name, machine_type) ==
    LET plan == _get_or_create_machine(user, mac_address, name, machine_type) IN
    CASE plan.kind = "raise" -> Return(HTTPException(plan.status, plan.detail))
      [] plan.kind = "return" ->
            Return(IF op = "login" THEN Token(user, plan.machine)
                                   ELSE Ok(MachineRead(plan.machine)))
      [] OTHER -> Commit([op |-> op, user |-> user, plan |-> plan])

login_run(email, password, mac_address, username, c) ==
    LET user == Scalar({u \in users : u.email = email}) IN
    IF user = NoRow \/ ~verify_password(password, user.hashed_password)
    THEN Return(HTTPException(401, "Invalid credentials"))
    ELSE ResolveOrCreate("login", user, mac_address, username, MachineTypeOf(c))

login(k, email, password, mac_address, username, c) ==
    LET run == login_run(email, password, mac_address, username, c) IN
    /\ Proceed(k, run)
    /\ tokens' = IF run.done THEN tokens \cup Issued(run.response) ELSE tokens
    /\ UNCHANGED <<store, limiter>>

\* name is "" when the body has no name
register_machine_run(credentials, mac_address, name, type) ==
    LET current == get_current_user(credentials) IN
    IF ~current.ok
    THEN Return(HTTPException(current.status, current.detail))
    ELSE ResolveOrCreate("register_machine", current.user, mac_address,
                         IF name # "" THEN name ELSE mac_address, type)

register_machine(k, credentials, mac_address, name, type) ==
    /\ Proceed(k, register_machine_run(credentials, mac_address, name, type))
    /\ UNCHANGED <<store, tokens, limiter>>

\* session.commit() and session.refresh(machine) of _get_or_create_machine,
\* and the rest of the handler that called it
machine_flush(req) ==
    LET plan == req.plan
        machine == IF plan.kind = "insert" THEN NewMachine(plan)
                   ELSE UpdatedMachine(CHOOSE m \in machines : m.id = plan.id, plan) IN
    IF plan.kind = "insert" /\ ~UniqueMacAddress(plan.mac_address)
    THEN [ok |-> FALSE, response |-> Unhandled("IntegrityError")]
    ELSE [ok |-> TRUE, row |-> machine,
          response |-> IF req.op = "login" THEN Token(req.user, machine)
                                           ELSE Ok(MachineRead(machine))]

machine_commit(req) ==
    /\ req.op \in {"login", "register_machine"}
    /\ pending' = Done(req)
    /\ LET flush == machine_flush(req) IN
       /\ tokens' = tokens \cup Issued(flush.response)
       /\ IF flush.ok
          THEN /\ clock' = clock + 1
               /\ machines' = {m \in machines : m.id # flush.row.id} \cup {flush.row}
          ELSE UNCHANGED <<machines, clock>>
    /\ UNCHANGED <<users, configurations, monitoring_data, limiter>>

(***************************************************************************)
(* GET /machines                                                           *)
(***************************************************************************)
list_machines_run(credentials) ==
    LET current == get_current_user(credentials) IN
    IF ~current.ok
    THEN HTTPException(current.status, current.detail)
    ELSE Ok([kind |-> "machines",
             machines |-> {MachineRead(m) : m \in
                              {x \in machines : x.owner_id = current.user.id}}])

\* a request that only reads is answered and changes nothing
Answered(response) == response.status \in {200, 400, 401, 404, 422, 500}

list_machines(credentials) ==
    /\ Answered(list_machines_run(credentials))
    /\ UNCHANGED vars

(***************************************************************************)
(* app/schemas.py: MachineConfigPayload.  populate_by_name=True lets the   *)
(* caller give a field under its alias or under its name, extra="allow"    *)
(* keeps the keys that are no field, and validation converts a value to    *)
(* the declared type of its field.                                         *)
(***************************************************************************)
ConfigFields ==
    << [name |-> "name", alias |-> "Nome", type |-> "str"],
       [name |-> "mac", alias |-> "MAC", type |-> "str"],
       [name |-> "type", alias |-> "type", type |-> "str"],
       [name |-> "notify", alias |-> "Notificar", type |-> "bool"],
       [name |-> "frequency", alias |-> "Frequency", type |-> "int"],
       [name |-> "start_with_os", alias |-> "iniciarSO", type |-> "bool"],
       [name |-> "status", alias |-> "status", type |-> "dict"] >>
FieldIndex == 1..Len(ConfigFields)

\* int("30"): the numeric strings of the input domain
NumericStrings == {"15", "30"}
ParseInt(s) == IF s = "15" THEN 15 ELSE 30

\* conversion of an input value to a declared type; ok is FALSE when the
\* value is rejected
Coerce(type, value) ==
    CASE type = "str" -> [ok |-> value.t = "str", v |-> value]
      [] type = "dict" -> [ok |-> value.t = "obj", v |-> value]
      [] type = "bool" ->
            IF value.t = "bool" THEN [ok |-> TRUE, v |-> value]
            ELSE IF value.t = "int" /\ value.v \in {0, 1}
                 THEN [ok |-> TRUE, v |-> JBool(value.v = 1)]
                 ELSE [ok |-> FALSE, v |-> value]
      [] type = "int" ->
            IF value.t = "int" THEN [ok |-> TRUE, v |-> value]
            ELSE IF value.t = "str" /\ value.v \in NumericStrings
                 THEN [ok |-> TRUE, v |-> JInt(ParseInt(value.v))]
                 ELSE [ok |-> FALSE, v |-> value]

\* the key of the document that populates field f: its alias, else its name
KeyOf(f, doc) ==
    IF f.alias \in DOMAIN doc THEN f.alias
    ELSE IF f.name \in DOMAIN doc THEN f.name ELSE ""

UsedKeys(doc) == {KeyOf(ConfigFields[i], doc) : i \in FieldIndex}

\* MachineConfigPayload.model_validate(doc)
Validate(doc) ==
    LET present == \A i \in FieldIndex : KeyOf(ConfigFields[i], doc) # ""
        coerced(i) == Coerce(ConfigFields[i].type, doc[KeyOf(ConfigFields[i], doc)]) IN
    IF present /\ \A i \in FieldIndex : coerced(i).ok
    THEN [ok |-> TRUE,
          fields |-> [i \in FieldIndex |-> coerced(i).v],
          extra |-> [k \in DOMAIN doc \ UsedKeys(doc) |-> doc[k]]]
    ELSE [ok |-> FALSE]

Aliases == {ConfigFields[i].alias : i \in FieldIndex}
Names == {ConfigFields[i].name : i \in FieldIndex}

\* config_data.model_dump(): the dump without by_alias=True
model_dump_by_name(model) ==
    [k \in Names \cup DOMAIN model.extra |->
        IF k \in Names
        THEN model.fields[CHOOSE i \in FieldIndex : ConfigFields[i].name = k]
        ELSE model.extra[k]]

\* config_data.model_dump(by_alias=True)
model_dump_by_alias(model) ==
    [k \in Aliases \cup DOMAIN model.extra |->
        IF k \in Aliases
        THEN model.fields[CHOOSE i \in FieldIndex : ConfigFields[i].alias = k]
        ELSE model.extra[k]]

\* config_data.mac
ConfigMac(model) == model.fields[2].v

(***************************************************************************)
(* Configuration documents a client sends for machine mac.                 *)
(***************************************************************************)
DocAlias(mac) ==
    [Nome |-> JStr("Desktop Principal"), MAC |-> JStr(mac), type |-> JStr("pc"),
     Notificar |-> JBool(TRUE), Frequency |-> JInt(30), iniciarSO |-> JBool(TRUE),
     status |-> JObj([CPU |-> JBool(TRUE)])]
DocByName(mac) ==
    [name |-> JStr("Teste"), mac |-> JStr(mac), type |-> JStr("server"),
     notify |-> JBool(FALSE), frequency |-> JInt(15), start_with_os |-> JBool(FALSE),
     status |-> JObj([RAM |-> JBool(TRUE)])]
DocExtra(mac) ==
    [Nome |-> JStr("Teste"), MAC |-> JStr(mac), type |-> JStr("pc"),
     Notificar |-> JBool(TRUE), Frequency |-> JInt(15), iniciarSO |-> JBool(TRUE),
     status |-> JObj([CPU |-> JBool(TRUE)]), location |-> JStr("lab")]
DocLax(mac) ==
    [Nome |-> JStr("Desktop Principal"), MAC |-> JStr(mac), type |-> JStr("pc"),
     Notificar |-> JInt(1), Frequency |-> JStr("30"), iniciarSO |-> JBool(TRUE),
     status |-> JObj([CPU |-> JBool(TRUE)])]
DocNoStatus(mac) ==
    [Nome |-> JStr("Teste"), MAC |-> JStr(mac), type |-> JStr("pc"),
     Notificar |-> JBool(TRUE), Frequency |-> JInt(15), iniciarSO |-> JBool(TRUE)]
ConfigDocs(macs) ==
    UNION {{DocAlias(m), DocByName(m), DocExtra(m), DocLax(m), DocNoStatus(m)} : m \in macs}

(***************************************************************************)
(* POST /update_confg_maquina and GET /machine/{mac}                       *)
(***************************************************************************)
ConfigOf(machine) == Scalar({c \in configurations : c.machine_id = machine.id})

\* the body both handlers return for a configuration row
ConfigBody(configuration) ==
    [kind |-> "config", data |-> configuration.raw_payload,
     updated_at |-> configuration.updated_at]

\* the handler up to session.commit(): doc is the value of "data" in the body
update_machine_config_run(credentials, doc) ==
    LET current == get_current_user(credentials)
        config_data == Validate(doc) IN
    IF ~current.ok THEN Return(HTTPException(current.status, current.detail))
    ELSE IF ~config_data.ok THEN Return(Response(422, "RequestValidationError", "", NoBody))
    ELSE LET gate == ensure_machine_ownership(ConfigMac(config_data), current.user) IN
         IF ~gate.ok THEN Return(HTTPException(gate.status, gate.detail))
         ELSE Commit([op |-> "update_machine_config", user |-> current.user, data |-> doc,
                      machine |-> gate.machine, configuration |-> ConfigOf(gate.machine),
                      raw_payload |-> model_dump_by_alias(config_data)])

update_machine_config(k, credentials, doc) ==
    /\ Proceed(k, update_machine_config_run(credentials, doc))
    /\ UNCHANGED <<store, tokens, limiter>>

\* an update that merges the new document into the stored one
update_machine_config_flush_merging(req) ==
    LET insert == req.configuration = NoRow
        old == IF insert THEN << >> ELSE req.configuration.raw_payload
        merged == [k \in DOMAIN req.raw_payload \cup DOMAIN old |->
                      IF k \in DOMAIN req.raw_payload THEN req.raw_payload[k] ELSE old[k]]
        dirty == insert \/ req.configuration.raw_payload # merged
        written == [id |-> IF insert THEN NextId(configurations) ELSE req.configuration.id,
                    machine_id |-> req.machine.id, raw_payload |-> merged,
                    updated_at |-> clock + 1]
        configuration == IF dirty THEN written
                         ELSE CHOOSE c \in configurations : c.id = req.configuration.id IN
    IF insert /\ ~UniqueMachineId(req.machine.id)
    THEN [ok |-> FALSE, wrote |-> FALSE, response |-> Unhandled("IntegrityError")]
    ELSE [ok |-> TRUE, wrote |-> dirty, row |-> configuration,
          response |-> Ok(ConfigBody(configuration))]

\* session.commit(), session.refresh(configuration) and the return.  The
\* flush INSERTs a new row, or UPDATEs the row read before when the payload
\* assigned to it differs from the one it was loaded with.
update_machine_config_flush(req) ==
    LET insert == req.configuration = NoRow
        dirty == insert \/ req.configuration.raw_payload # req.raw_payload
        written == [id |-> IF insert THEN NextId(configurations) ELSE req.configuration.id,
                    machine_id |-> req.machine.id, raw_payload |-> req.raw_payload,
                    updated_at |-> clock + 1]
        configuration == IF dirty THEN written
                         ELSE CHOOSE c \in configurations : c.id = req.configuration.id IN
    IF insert /\ ~UniqueMachineId(req.machine.id)
    THEN [ok |-> FALSE, wrote |-> FALSE, response |-> Unhandled("IntegrityError")]
    ELSE [ok |-> TRUE, wrote |-> dirty, row |-> configuration,
          response |-> Ok(ConfigBody(configuration))]

\* a commit that also copies Nome and type of the document to the machine
update_machine_config_commit_syncing(req) ==
    /\ req.op = "update_machine_config"
    /\ pending' = Done(req)
    /\ LET flush == update_machine_config_flush(req) IN
       IF flush.wrote
       THEN /\ clock' = clock + 1
            /\ configurations' = {c \in configurations : c.id # flush.row.id} \cup {flush.row}
            /\ machines' = {IF m.id = req.machine.id
                            THEN [m EXCEPT !.name = req.raw_payload["Nome"].v,
                                           !.type = req.raw_payload["type"].v,
                                           !.updated_at = clock + 1]
                            ELSE m : m \in machines}
       ELSE UNCHANGED <<configurations, clock, machines>>
    /\ UNCHANGED <<users, monitoring_data, tokens, limiter>>

update_machine_config_commit(req) ==
    /\ req.op = "update_machine_config"
    /\ pending' = Done(req)
    /\ LET flush == update_machine_config_flush(req) IN
       IF flush.wrote
       THEN /\ clock' = clock + 1
            /\ configurations' = {c \in configurations : c.id # flush.row.id} \cup {flush.row}
       ELSE UNCHANGED <<configurations, clock>>
    /\ UNCHANGED <<users, machines, monitoring_data, tokens, limiter>>

\* a read that serves a token only for the machine of its login
get_machine_config_of_token_machine(credentials, mac) ==
    LET current == get_current_user(credentials) IN
    IF ~current.ok THEN HTTPException(current.status, current.detail)
    ELSE IF credentials.credentials.machine_mac # mac
    THEN HTTPException(404, "Machine not found")
    ELSE LET gate == ensure_machine_ownership(mac, current.user) IN
         IF ~gate.ok THEN HTTPException(gate.status, gate.detail)
         ELSE LET configuration == ConfigOf(gate.machine) IN
              IF configuration = NoRow THEN HTTPException(404, "Configuration not found")
              ELSE Ok(ConfigBody(configuration))

get_machine_config_run(credentials, mac) ==
    LET current == get_current_user(credentials) IN
    IF ~current.ok THEN HTTPException(current.status, current.detail)
    ELSE LET gate == ensure_machine_ownership(mac, current.user) IN
         IF ~gate.ok THEN HTTPException(gate.status, gate.detail)
         ELSE LET configuration == ConfigOf(gate.machine) IN
              IF configuration = NoRow THEN HTTPException(404, "Configuration not found")
              ELSE Ok(ConfigBody(configuration))

get_machine_config(credentials, mac) ==
    /\ Answered(get_machine_config_run(credentials, mac))
    /\ UNCHANGED vars

(***************************************************************************)
(* Metrics payloads: the value of "data" in the body of PUT /maquina/status *)
(***************************************************************************)
PayloadAgent(mac) ==
    [timestamp |-> JStr("2024-05-20T10:33:00Z"), machine_info |-> JObj([mac |-> JStr(mac)]),
     cpu |-> JInt(52), disk |-> JObj([usage |-> JInt(73)])]
PayloadFlat(mac) == [mac_address |-> JStr(mac), cpu |-> JInt(10)]
PayloadNoMac == [cpu |-> JInt(1)]
MetricPayloads(macs) == UNION {{PayloadAgent(m), PayloadFlat(m)} : m \in macs} \cup {PayloadNoMac}

\* nested documents, and a later instant
PayloadNested(mac) ==
    [timestamp |-> JStr("2024-05-20T10:34:00+00:00"), mac_address |-> JStr(mac),
     cpu |-> JObj([value |-> JInt(10)]),
     memory |-> JObj([usage |-> JStr("high"), percent |-> JInt(30)]),
     disk |-> JObj([percent |-> JInt(10), usage |-> JInt(20), value |-> JInt(5)])]
\* values that are no number and no document with a number
PayloadUntyped(mac) ==
    [mac_address |-> JStr(mac), cpu |-> JBool(TRUE), memory |-> JStr("high"),
     disk |-> JNull, gpu |-> JList(<<JInt(1), JInt(2)>>),
     net |-> JObj([usage |-> JStr("low"), rate |-> JInt(7)]),
     load |-> JObj([usage |-> JBool(FALSE), percent |-> JInt(30)])]
\* timestamps that are no ISO-8601 string
PayloadBadTime(mac) == [timestamp |-> JStr("yesterday"), mac_address |-> JStr(mac), cpu |-> JInt(10)]
PayloadNumTime(mac) == [timestamp |-> JInt(1716201180), mac_address |-> JStr(mac), cpu |-> JInt(52)]
\* machine_info that is no document, or a document without mac
PayloadInfoText == [machine_info |-> JStr("desktop"), cpu |-> JInt(1)]
PayloadInfoNull == [machine_info |-> JNull, cpu |-> JInt(1)]
PayloadInfoNoMac == [machine_info |-> JObj([hostname |-> JStr("desktop")]), cpu |-> JInt(1)]
NoMacPayloads == {PayloadNoMac, PayloadInfoText, PayloadInfoNull, PayloadInfoNoMac}

\* bool(value) of Python
Truthy(value) ==
    CASE value.t = "null" -> FALSE
      [] value.t = "str" -> value.v # ""
      [] value.t = "int" -> value.v # 0
      [] value.t = "bool" -> value.v
      [] value.t = "obj" -> DOMAIN value.v # {}
      [] OTHER -> TRUE

\* timestamp_str.replace("Z", "+00:00")
ReplaceZ(s) == IF s = "2024-05-20T10:33:00Z" THEN "2024-05-20T10:33:00+00:00" ELSE s
\* datetime.fromisoformat(s): the instant, as minutes of the model's time line
fromisoformat(s) ==
    CASE s = "2024-05-20T10:33:00+00:00" -> [ok |-> TRUE, v |-> 10]
      [] s = "2024-05-20T10:34:00+00:00" -> [ok |-> TRUE, v |-> 11]
      [] OTHER -> [ok |-> FALSE]
\* datetime.utcnow() of the server: later than every instant a client sends
utcnow == 100 + clock

\* a handler that answers a payload it has stored before without storing it
update_machine_status_deduplicating(credentials, data) ==
    LET current == get_current_user(credentials)
        machine_info == IF "machine_info" \in DOMAIN data THEN data["machine_info"]
                        ELSE JObj(<<>>) IN
    IF ~current.ok THEN Return(HTTPException(current.status, current.detail))
    ELSE IF machine_info.t # "obj" THEN Return(Unhandled("AttributeError"))
    ELSE LET info_mac == Get(machine_info.v, "mac")
             mac == IF Truthy(info_mac) THEN info_mac ELSE Get(data, "mac_address") IN
         IF ~Truthy(mac) THEN Return(HTTPException(400, "MAC address missing in payload"))
         ELSE LET gate == ensure_machine_ownership(IF mac.t = "str" THEN mac.v ELSE "",
                                                   current.user)
                  timestamp_str == Get(data, "timestamp")
                  parsed == IF timestamp_str.t = "str"
                            THEN fromisoformat(ReplaceZ(timestamp_str.v))
                            ELSE [ok |-> TRUE, v |-> utcnow] IN
              IF ~gate.ok THEN Return(HTTPException(gate.status, gate.detail))
              ELSE IF ~parsed.ok THEN Return(Unhandled("ValueError"))
              ELSE LET stored == {r \in monitoring_data :
                                    r.machine_id = gate.machine.id /\ r.metrics = data} IN
                   IF stored # {}
                   THEN LET r == CHOOSE x \in stored : TRUE IN
                        Return(Ok([kind |-> "status", reference_id |-> r.reference_id,
                                   timestamp |-> r.timestamp]))
                   ELSE Commit([id |-> NextId(monitoring_data),
                                machine_id |-> gate.machine.id,
                                timestamp |-> parsed.v, metrics |-> data,
                                reference_id |-> NextId(monitoring_data)])

(***************************************************************************)
(* PUT /maquina/status.  The handler reads nothing that a concurrent       *)
(* request can change before its commit, so it is one step.                *)
(***************************************************************************)
update_machine_status_run(credentials, data) ==
    LET current == get_current_user(credentials)
        machine_info == IF "machine_info" \in DOMAIN data THEN data["machine_info"]
                        ELSE JObj(<<>>) IN
    IF ~current.ok THEN Return(HTTPException(current.status, current.detail))
    ELSE IF machine_info.t # "obj" THEN Return(Unhandled("AttributeError"))
    ELSE LET info_mac == Get(machine_info.v, "mac")
             mac == IF Truthy(info_mac) THEN info_mac ELSE Get(data, "mac_address") IN
         IF ~Truthy(mac) THEN Return(HTTPException(400, "MAC address missing in payload"))
         ELSE LET gate == ensure_machine_ownership(IF mac.t = "str" THEN mac.v ELSE "",
                                                   current.user)
                  timestamp_str == Get(data, "timestamp")
                  parsed == IF timestamp_str.t = "str"
                            THEN fromisoformat(ReplaceZ(timestamp_str.v))
                            ELSE [ok |-> TRUE, v |-> utcnow] IN
              IF ~gate.ok THEN Return(HTTPException(gate.status, gate.detail))
              ELSE IF ~parsed.ok THEN Return(Unhandled("ValueError"))
              ELSE Commit([id |-> NextId(monitoring_data), machine_id |-> gate.machine.id,
                           timestamp |-> parsed.v, metrics |-> data,
                           reference_id |-> NextId(monitoring_data)])

\* the return after the commit and the refresh of the new row
update_machine_status_response(run) ==
    IF run.done THEN run.response
    ELSE Ok([kind |-> "status", reference_id |-> run.req.reference_id,
             timestamp |-> run.req.timestamp])

update_machine_status(credentials, data) ==
    /\ LET run == update_machine_status_run(credentials, data) IN
       IF run.done
       THEN UNCHANGED <<monitoring_data, clock>>
       ELSE /\ clock' = clock + 1
            /\ monitoring_data' = monitoring_data \cup {run.req}
    /\ UNCHANGED <<users, machines, configurations, tokens, pending, limiter>>

(***************************************************************************)
(* GET /metrics/{mac}                                                      *)
(***************************************************************************)
NoTime == -1
MonitoringDataRead(record) ==
    [timestamp |-> record.timestamp, metrics |-> record.metrics,
     reference_id |-> record.reference_id]

\* ORDER BY timestamp without DESC
OrderByTimestampAsc(rows) ==
    {q \in [1..Cardinality(rows) -> rows] :
        /\ \A i, j \in DOMAIN q : i # j => q[i] # q[j]
        /\ \A i, j \in DOMAIN q : i < j => q[i].timestamp <= q[j].timestamp}

\* the orders ORDER BY timestamp DESC can return the rows in: the one order
\* when no two rows have the same timestamp (a row comes after the newer[r]
\* rows that are newer), else every order of the rows that is descending
OrderByTimestampDesc(rows) ==
    LET newer == [r \in rows |-> Cardinality({x \in rows : x.timestamp > r.timestamp})] IN
    IF \A r \in rows : Cardinality({x \in rows : x.timestamp = r.timestamp}) = 1
    THEN {[i \in 1..Cardinality(rows) |-> CHOOSE r \in rows : newer[r] = i - 1]}
    ELSE {q \in [1..Cardinality(rows) -> rows] :
             /\ \A i, j \in DOMAIN q : i # j => q[i] # q[j]
             /\ \A i, j \in DOMAIN q : i < j => q[i].timestamp >= q[j].timestamp}

\* stmt.limit(limit) on SQLite, the database of the default database_url:
\* LIMIT with a negative value puts no upper bound on the rows
Limit(q, limit) ==
    IF limit < 0 THEN q ELSE SubSeq(q, 1, IF limit < Len(q) THEN limit ELSE Len(q))

\* the responses the request can get: one for each order of the rows
list_machine_metrics_run(credentials, mac, start, end, limit) ==
    LET current == get_current_user(credentials) IN
    IF ~current.ok THEN {HTTPException(current.status, current.detail)}
    ELSE IF limit > 1000 THEN {Response(422, "RequestValidationError", "", NoBody)}
    ELSE LET gate == ensure_machine_ownership(mac, current.user) IN
         IF ~gate.ok THEN {HTTPException(gate.status, gate.detail)}
         ELSE LET rows == {r \in monitoring_data :
                             /\ r.machine_id = gate.machine.id
                             /\ (start # NoTime => r.timestamp >= start)
                             /\ (end # NoTime => r.timestamp <= end)} IN
              {Ok([kind |-> "records",
                   records |-> [i \in DOMAIN Limit(q, limit) |-> MonitoringDataRead(q[i])]]) :
                 q \in OrderByTimestampDesc(rows)}
              \* PostgreSQL rejects a negative LIMIT, and no handler catches the error
              \cup (IF limit < 0 THEN {Unhandled("DBAPIError")} ELSE {})

list_machine_metrics(credentials, mac, start, end, limit) ==
    /\ \E response \in list_machine_metrics_run(credentials, mac, start, end, limit) :
          Answered(response)
    /\ UNCHANGED vars

(***************************************************************************)
(* GET /metrics/{mac}/aggregate                                            *)
(***************************************************************************)
\* isinstance(value, (int, float)); a bool is an int
IsNumber(value) == value.t \in {"int", "bool"}
\* float(value)
Float(value) == IF value.t = "bool" THEN (IF value.v THEN 1 ELSE 0) ELSE value.v

Candidates == <<"usage", "percent", "value">>
\* the loop over the candidates without its priority: the last match wins
Contribution_last_match(metrics, key) ==
    LET value == Get(metrics, key) IN
    IF IsNumber(value) THEN <<Float(value)>>
    ELSE IF value.t = "obj"
    THEN LET hits == {i \in DOMAIN Candidates : IsNumber(Get(value.v, Candidates[i]))} IN
         IF hits = {} THEN <<>>
         ELSE <<Float(Get(value.v, Candidates[CHOOSE i \in hits : \A j \in hits : i >= j]))>>
    ELSE <<>>

\* the values a record adds to the list of key: none or one
Contribution(metrics, key) ==
    LET value == Get(metrics, key) IN
    IF IsNumber(value) THEN <<Float(value)>>
    ELSE IF value.t = "obj"
    THEN LET hits == {i \in DOMAIN Candidates : IsNumber(Get(value.v, Candidates[i]))} IN
         IF hits = {} THEN <<>>
         ELSE <<Float(Get(value.v, Candidates[CHOOSE i \in hits : \A j \in hits : i <= j]))>>
    ELSE <<>>

RECURSIVE SumOf(_)
SumOf(values) ==
    IF values = {} THEN 0
    ELSE LET x == CHOOSE y \in values : TRUE IN x.value + SumOf(values \ {x})

\* MetricsAggregate of one key; the average is the fraction sum / count
Aggregate(records, key) ==
    LET contributing == {r \in records : Contribution(r.metrics, key) # <<>>}
        values == {[id |-> r.id, value |-> Contribution(r.metrics, key)[1]] : r \in contributing} IN
    IF values = {}
    THEN [metric |-> key, empty |-> TRUE]
    ELSE [metric |-> key, empty |-> FALSE,
          minimum |-> CHOOSE v \in {x.value : x \in values} : \A x \in values : v <= x.value,
          maximum |-> CHOOSE v \in {x.value : x \in values} : \A x \in values : v >= x.value,
          average |-> [sum |-> SumOf(values), count |-> Cardinality(values)]]

\* a handler that selects the records without the machine in the WHERE clause
aggregate_metrics_of_all_machines(credentials, mac, metric_keys) ==
    LET current == get_current_user(credentials) IN
    IF ~current.ok THEN HTTPException(current.status, current.detail)
    ELSE LET gate == ensure_machine_ownership(mac, current.user) IN
         IF ~gate.ok THEN HTTPException(gate.status, gate.detail)
         ELSE Ok([kind |-> "aggregates",
                  aggregates |-> [i \in DOMAIN metric_keys |->
                                     Aggregate(monitoring_data, metric_keys[i])]])

\* a handler that leaves out the keys for which it collected no value
HasValues(aggregate) == ~aggregate.empty
aggregate_metrics_skipping_empty(credentials, mac, metric_keys) ==
    LET current == get_current_user(credentials) IN
    IF ~current.ok THEN HTTPException(current.status, current.detail)
    ELSE LET gate == ensure_machine_ownership(mac, current.user) IN
         IF ~gate.ok THEN HTTPException(gate.status, gate.detail)
         ELSE LET records == {r \in monitoring_data : r.machine_id = gate.machine.id} IN
              Ok([kind |-> "aggregates",
                  aggregates |-> SelectSeq([i \in DOMAIN metric_keys |->
                                               Aggregate(records, metric_keys[i])],
                                           HasValues)])

aggregate_metrics_run(credentials, mac, metric_keys) ==
    LET current == get_current_user(credentials) IN
    IF ~current.ok THEN HTTPException(current.status, current.detail)
    ELSE LET gate == ensure_machine_ownership(mac, current.user) IN
         IF ~gate.ok THEN HTTPException(gate.status, gate.detail)
         ELSE LET records == {r \in monitoring_data : r.machine_id = gate.machine.id} IN
              Ok([kind |-> "aggregates",
                  aggregates |-> [i \in DOMAIN metric_keys |->
                                     Aggregate(records, metric_keys[i])]])

aggregate_metrics(credentials, mac, metric_keys) ==
    /\ Answered(aggregate_metrics_run(credentials, mac, metric_keys))
    /\ UNCHANGED vars

(***************************************************************************)
(* app/main.py: rate_limit_middleware.  The code from the read of the      *)
(* bucket to its assignment has no await, so it is one step.               *)
(***************************************************************************)
\* the hits of a list that are less than a window old
Recent(hits) == SelectSeq(hits, LAMBDA hit : now - hit < rate_limit_window_seconds)

\* a limiter that records the request before it decides
rate_limit_recording_rejected(identifier, path) ==
    IF path \in ExemptPaths
    THEN [status |-> "call_next", buckets |-> _rate_buckets]
    ELSE LET hits == Recent(_rate_buckets[identifier])
             recorded == [_rate_buckets EXCEPT ![identifier] = Append(hits, now)] IN
         IF Len(hits) >= rate_limit_requests
         THEN [status |-> "429", buckets |-> recorded]
         ELSE [status |-> "call_next", buckets |-> recorded]

rate_limit_middleware_run(identifier, path) ==
    IF path \in ExemptPaths
    THEN [status |-> "call_next", buckets |-> _rate_buckets]
    ELSE LET hits == Recent(_rate_buckets[identifier]) IN
         IF Len(hits) >= rate_limit_requests
         THEN [status |-> "429", buckets |-> _rate_buckets]
         ELSE [status |-> "call_next",
               buckets |-> [_rate_buckets EXCEPT ![identifier] = Append(hits, now)]]

rate_limit_middleware(identifier, path) ==
    LET run == rate_limit_middleware_run(identifier, path) IN
    /\ _rate_buckets' = run.buckets
    /\ passed' = IF run.status = "call_next"
                 THEN Append(passed, [identifier |-> identifier, path |-> path, at |-> now])
                 ELSE passed
    /\ UNCHANGED <<now, store, tokens, pending>>

\* time passes
Tick ==
    /\ now < MaxNow
    /\ now' = now + 1
    /\ UNCHANGED <<_rate_buckets, passed, store, tokens, pending>>

(***************************************************************************)
(* The requests of clients whose inputs are drawn from the sets of in, at  *)
(* most k of them waiting for their commit at the same time, and at most   *)
(* in.commits commits that write.                                          *)
(***************************************************************************)
Presented(in) == Credentials \cup (IF in.stale THEN StaleCredentials ELSE {})

Requests(k, in) ==
    \/ \E e \in in.emails, p \in Passwords : register_user(k, e, p)
    \/ \E req \in Waiting : register_user_commit(req) /\ clock' <= in.commits
    \/ \E e \in in.emails, p \in in.passwords, m \in in.macs, n \in in.names, c \in in.os :
          login(k, e, p, m, n, c)
    \/ \E cr \in Presented(in), m \in in.macs, n \in in.names \cup in.noname, t \in in.types :
          register_machine(k, cr, m, n, t)
    \/ \E req \in Waiting : machine_commit(req) /\ clock' <= in.commits
    \/ \E cr \in Presented(in) : list_machines(cr)
    \/ \E cr \in Presented(in), d \in in.docs : update_machine_config(k, cr, d)
    \/ \E req \in Waiting : update_machine_config_commit(req) /\ clock' <= in.commits
    \/ \E cr \in Presented(in), m \in in.macs : get_machine_config(cr, m)
    \/ \E cr \in Presented(in), d \in in.payloads :
          update_machine_status(cr, d) /\ clock' <= in.commits
    \/ \E cr \in Presented(in), m \in in.macs, st \in in.times, en \in in.times, l \in in.limits :
          list_machine_metrics(cr, m, st, en, l)
    \/ \E cr \in Presented(in), m \in in.macs, ks \in in.keys : aggregate_metrics(cr, m, ks)

\* the smallest inputs: two users and the agent of one machine
Agent ==
    [emails |-> Emails, passwords |-> Passwords, macs |-> {"AA:BB"},
     names |-> {"Desktop-01"}, noname |-> {}, os |-> {<<"w","i","n","-","p","c">>},
     types |-> {"pc"}, docs |-> {DocAlias("AA:BB")}, payloads |-> {PayloadFlat("AA:BB")},
     times |-> {NoTime}, limits |-> {100}, keys |-> {<<"cpu">>}, stale |-> FALSE,
     commits |-> MaxCommits]

(***************************************************************************)
(* Spec: logins and machine registrations with every input of the machine  *)
(* registry; every request runs to its end before the next one starts.     *)
(***************************************************************************)
RegistryInputs ==
    [Agent EXCEPT !.passwords = LoginPasswords, !.macs = Macs,
                  !.os = OsDescriptors, !.types = MachineTypes]
Next == Requests(1, RegistryInputs)
Spec == Init /\ [][Next]_vars

(***************************************************************************)
(* Gated: the operations behind the ownership gate, on two machines.       *)
(***************************************************************************)
GatedInputs ==
    [Agent EXCEPT !.macs = Macs,
                  !.docs = ConfigDocs({"AA:BB"}) \cup {DocAlias("11:22")},
                  !.payloads = MetricPayloads({"AA:BB"}) \cup {PayloadFlat("11:22")}]
GatedNext == Requests(1, GatedInputs)
Gated == Init /\ [][GatedNext]_vars

(***************************************************************************)
(* Concurrent: requests interleave at their commits.                       *)
(***************************************************************************)
ConcurrentInputs ==
    [Agent EXCEPT !.os = {<<"w","i","n","-","p","c">>, <<"W","i","n","S","e","r","v","e","r">>},
                  !.docs = {DocAlias("AA:BB"), DocByName("AA:BB")},
                  !.commits = MaxRaceCommits]
ConcurrentNext == Requests(MaxInflight, ConcurrentInputs)
Concurrent == Init /\ [][ConcurrentNext]_vars

(***************************************************************************)
(* Metrics: one user, the agents of two machines and the queries on their  *)
(* records.                                                                *)
(***************************************************************************)
MetricsInputs ==
    [Agent EXCEPT !.emails = {"ops@example.com"}, !.macs = Macs,
                  !.payloads = {PayloadAgent("AA:BB"), PayloadFlat("AA:BB"),
                                PayloadNested("AA:BB"), PayloadBadTime("AA:BB"),
                                PayloadNumTime("AA:BB"), PayloadFlat("11:22"),
                                PayloadNoMac, PayloadInfoText},
                  !.times = {NoTime, 11}, !.limits = {-1, 1, 1001},
                  !.keys = {<<"cpu">>, <<"disk", "cpu", "disk">>, <<"memory", "gpu">>}]
MetricsNext == Requests(1, MetricsInputs)
Metrics == Init /\ [][MetricsNext]_vars

(***************************************************************************)
(* Bulk: the agent of one machine sends one status after the other.        *)
(***************************************************************************)
BulkNext ==
    \/ register_user(1, "ops@example.com", "s3cret")
    \/ \E req \in Waiting : register_user_commit(req)
    \/ login(1, "ops@example.com", "s3cret", "AA:BB", "Desktop-01", <<"w","i","n","-","p","c">>)
    \/ \E req \in Waiting : machine_commit(req)
    \/ \E cr \in Credentials :
          /\ update_machine_status(cr, PayloadFlat("AA:BB"))
          /\ Cardinality(monitoring_data') <= MaxBulkRecords
Bulk == Init /\ [][BulkNext]_vars

(***************************************************************************)
(* Stale: the requests of clients that also present expired tokens and     *)
(* tokens that the service did not issue, with bodies and queries that the *)
(* validation refuses among the inputs.                                    *)
(***************************************************************************)
StaleInputs ==
    [Agent EXCEPT !.docs = {DocAlias("AA:BB"), DocNoStatus("AA:BB")},
                  !.payloads = {PayloadFlat("AA:BB"), PayloadNoMac},
                  !.limits = {100, 1001}, !.stale = TRUE]
StaleNext == Requests(1, StaleInputs)
Stale == Init /\ [][StaleNext]_vars

(***************************************************************************)
(* Untyped: agents that send numbers and values of the other JSON types.   *)
(***************************************************************************)
UntypedInputs ==
    [Agent EXCEPT !.payloads = {PayloadFlat("AA:BB"), PayloadUntyped("AA:BB")},
                  !.keys = {<<"cpu">>, <<"memory", "disk", "gpu", "net", "load", "swap">>}]
UntypedNext == Requests(1, UntypedInputs)
Untyped == Init /\ [][UntypedNext]_vars

(***************************************************************************)
(* RateLimit: the requests of two clients as the rate limiter sees them.   *)
(***************************************************************************)
RateLimitNext ==
    \/ \E identifier \in Identifiers, path \in Paths :
          /\ rate_limit_middleware(identifier, path)
          /\ Len(passed') <= MaxPassed
    \/ Tick
RateLimit == Init /\ [][RateLimitNext]_vars

(***************************************************************************)
(* Relogin: the logins of one user for one machine, under two user names   *)
(* and two OS descriptors, interleaving at their commits.                  *)
(***************************************************************************)
ReloginNames == {"Desktop-01", "Desktop-02"}
ReloginOs == {<<"w","i","n","-","p","c">>, <<"W","i","n","S","e","r","v","e","r">>}
ReloginNext ==
    \/ register_user(MaxInflight, "ops@example.com", "s3cret")
    \/ \E req \in Waiting : register_user_commit(req) /\ clock' <= MaxRaceCommits
    \/ \E n \in ReloginNames, c \in ReloginOs :
          login(MaxInflight, "ops@example.com", "s3cret", "AA:BB", n, c)
    \/ \E req \in Waiting : machine_commit(req) /\ clock' <= MaxRaceCommits
Relogin == Init /\ [][ReloginNext]_vars

(***************************************************************************)
(*                              Properties                                 *)
(***************************************************************************)
MachineRequest(req) == req.op \in {"login", "register_machine"}
UserOf(id) == CHOOSE u \in users : u.id = id
\* a client that sends a good password or a token of user u
TokensOf(u) == {t \in tokens : t.sub = u.email}

(***************************************************************************)
(* C1.  A machine keeps its owner: every step leaves each machine row with *)
(* the owner_id (and mac_address) it had, and a row that a step adds is    *)
(* owned by the user of the request whose commit added it.                 *)
(***************************************************************************)
C1_OwnerNeverChanges ==
    [][ /\ \A m \in machines : \E n \in machines' :
              n.id = m.id /\ n.owner_id = m.owner_id /\ n.mac_address = m.mac_address
        /\ \A n \in machines' \ machines :
              (\A m \in machines : m.id # n.id) =>
                 \E req \in Waiting :
                    /\ MachineRequest(req) /\ req.plan.kind = "insert"
                    /\ pending' = Done(req)
                    /\ n.owner_id = req.user.id ]_vars

\* a machine that was updated after its creation, and another user whose
\* login with its mac is refused
C1_Witness ==
    \E m \in machines, u \in users :
        /\ u.id # m.owner_id
        /\ m.updated_at > m.created_at
        /\ \E p \in Passwords, n \in Usernames, c \in OsDescriptors :
              login_run(u.email, p, m.mac_address, n, c).response.status = 400

(***************************************************************************)
(* C2.  Once a machine is owned by user_a, a login or a POST /machines of  *)
(* another user with its mac is answered 400 "Machine belongs to another   *)
(* user" without a token, and the step changes neither the machines nor    *)
(* the tokens.                                                             *)
(***************************************************************************)
OwnershipConflict == Return(HTTPException(400, "Machine belongs to another user"))

C2_ConflictRefused ==
    \A m \in machines, u \in users :
        u.id # m.owner_id =>
           /\ \A p \in Passwords, n \in Usernames, c \in OsDescriptors :
                 LET run == login_run(u.email, p, m.mac_address, n, c) IN
                 run = OwnershipConflict /\ Issued(run.response) = {}
           /\ \A t \in TokensOf(u), n \in Usernames \cup {""}, ty \in MachineTypes :
                 register_machine_run(Bearer(t), m.mac_address, n, ty) = OwnershipConflict

C2_ConflictChangesNothing ==
    [][ \/ UNCHANGED <<machines, tokens, pending>>
        \/ \A m \in machines, u \in users :
              ~ /\ u.id # m.owner_id
                /\ \/ \E p \in Passwords, n \in Usernames, c \in OsDescriptors :
                         login(MaxInflight, u.email, p, m.mac_address, n, c)
                   \/ \E t \in TokensOf(u), n \in Usernames \cup {""}, ty \in MachineTypes :
                         register_machine(MaxInflight, Bearer(t), m.mac_address, n, ty) ]_vars

\* C2: the request of another user is refused, and its step changes nothing
C2_OwnershipConflict == []C2_ConflictRefused /\ C2_ConflictChangesNothing

\* a user with a token, and a machine of another user: both requests of
\* the claim can be made, and POST /machines is refused
C2_Witness ==
    \E m \in machines, u \in users :
        /\ u.id # m.owner_id
        /\ \E t \in TokensOf(u) :
              register_machine_run(Bearer(t), m.mac_address, "", "pc") = OwnershipConflict

(***************************************************************************)
(* C3.  resolve_or_create is idempotent: after the commit of a call with   *)
(* (mac, name, type, user), and in every later state in which the machine  *)
(* still has this name and type, a call with the same inputs returns the   *)
(* machine with the same id and ends before any commit, so that it writes  *)
(* nothing and updated_at stays.                                           *)
(***************************************************************************)
C3_SecondCallReturns ==
    \A m \in machines :
        LET u == UserOf(m.owner_id) IN
        /\ _get_or_create_machine(u, m.mac_address, m.name, m.type) =
              [kind |-> "return", machine |-> m]
        /\ \A t \in TokensOf(u) :
              register_machine_run(Bearer(t), m.mac_address, m.name, m.type) =
                 Return(Ok(MachineRead(m)))

C3_FirstCallStores ==
    [][ \A req \in Waiting :
           MachineRequest(req) /\ machine_commit(req) /\ machine_flush(req).ok =>
              \E n \in machines' :
                 /\ n.id = machine_flush(req).row.id
                 /\ n.name = req.plan.name /\ n.type = req.plan.type
                 /\ n.owner_id = req.user.id ]_vars

C3_SecondCallWritesNothing ==
    [][ \/ UNCHANGED <<machines, pending>>
        \/ \A m \in machines :
              ~ \/ \E p \in Passwords, c \in OsDescriptors :
                      /\ MachineTypeOf(c) = m.type
                      /\ login(MaxInflight, UserOf(m.owner_id).email, p, m.mac_address, m.name, c)
                \/ \E t \in TokensOf(UserOf(m.owner_id)) :
                      register_machine(MaxInflight, Bearer(t), m.mac_address, m.name, m.type) ]_vars

\* C3: the second call returns the same machine and writes nothing
C3_Idempotent == []C3_SecondCallReturns /\ C3_FirstCallStores /\ C3_SecondCallWritesNothing

\* a machine whose owner has a token: the first call is over, and the
\* second call with the same inputs returns the machine as it is
C3_Witness ==
    \E m \in machines :
        /\ m.updated_at > m.created_at
        /\ \E t \in TokensOf(UserOf(m.owner_id)) :
              register_machine_run(Bearer(t), m.mac_address, m.name, m.type) =
                 Return(Ok(MachineRead(m)))

(***************************************************************************)
(* The operations behind the ownership gate, as user u sees them for mac:  *)
(* the responses to every request of the input domains that names mac.     *)
(***************************************************************************)
UnknownMac == "FF:FF"
AllMacs == Macs \cup {UnknownMac}
QueryTimes == {NoTime, 10}
QueryLimits == {1, 100, 1000}
KeyLists == {<<"cpu">>, <<"cpu", "disk">>}

Owns(u, mac) == \E m \in machines : m.mac_address = mac /\ m.owner_id = u.id
NotFound == HTTPException(404, "Machine not found")

GatedReads(credentials, mac) ==
    [get |-> get_machine_config_run(credentials, mac),
     aggregate |-> [ks \in KeyLists |-> aggregate_metrics_run(credentials, mac, ks)],
     list |-> [q \in QueryTimes \X QueryTimes \X QueryLimits |->
                  list_machine_metrics_run(credentials, mac, q[1], q[2], q[3])]]
GatedWrites(credentials, mac) ==
    [config |-> << update_machine_config_run(credentials, DocAlias(mac)),
                   update_machine_config_run(credentials, DocByName(mac)),
                   update_machine_config_run(credentials, DocExtra(mac)),
                   update_machine_config_run(credentials, DocLax(mac)) >>,
     status |-> << update_machine_status_run(credentials, PayloadAgent(mac)),
                   update_machine_status_run(credentials, PayloadFlat(mac)) >>]

\* the data of machine m in the store
HasData(m) ==
    \/ \E c \in configurations : c.machine_id = m.id
    \/ \E r \in monitoring_data : r.machine_id = m.id

(***************************************************************************)
(* C4.  A Configuration or Metrics operation of user u on a mac that is no *)
(* machine of u is answered 404 "Machine not found" without a body and     *)
(* ends before any commit; its step changes nothing.  Hence an operation   *)
(* that reads or writes the data of a machine is one of its owner.         *)
(***************************************************************************)
C4_GateAnswers ==
    \A u \in users : \A t \in TokensOf(u), mac \in AllMacs :
        ~Owns(u, mac) =>
           LET reads == GatedReads(Bearer(t), mac)
               writes == GatedWrites(Bearer(t), mac) IN
           /\ reads.get = NotFound
           /\ \A ks \in KeyLists : reads.aggregate[ks] = NotFound
           /\ \A q \in DOMAIN reads.list : reads.list[q] = {NotFound}
           /\ \A i \in DOMAIN writes.config : writes.config[i] = Return(NotFound)
           /\ \A i \in DOMAIN writes.status : writes.status[i] = Return(NotFound)

C4_GateChangesNothing ==
    [][ \/ UNCHANGED vars
        \/ \A u \in users : \A t \in TokensOf(u), mac \in AllMacs :
              ~ /\ ~Owns(u, mac)
                /\ \/ \E d \in ConfigDocs({mac}) \ {DocNoStatus(mac)} :
                         update_machine_config(MaxInflight, Bearer(t), d)
                   \/ \E d \in MetricPayloads({mac}) \ {PayloadNoMac} :
                         update_machine_status(Bearer(t), d) ]_vars

\* C4: every operation behind the gate on a mac that is no machine of the
\* user is answered "Machine not found" and changes nothing
C4_OwnershipGate == []C4_GateAnswers /\ C4_GateChangesNothing

\* a user with a token asks for the machine of another user that has data
C4_Witness ==
    \E m \in machines, u \in users :
        /\ u.id # m.owner_id
        /\ HasData(m)
        /\ \E t \in TokensOf(u) : get_machine_config_run(Bearer(t), m.mac_address) = NotFound

(***************************************************************************)
(* C5.  For a user, a mac of a machine of another user and a mac of no     *)
(* machine are the same: every operation behind the gate answers both with *)
(* the same response (status and detail).                                  *)
(***************************************************************************)
C5_NoExistenceLeak ==
    \A u \in users : \A t \in TokensOf(u), mac1 \in AllMacs, mac2 \in AllMacs :
        ~Owns(u, mac1) /\ ~Owns(u, mac2) =>
           /\ GatedReads(Bearer(t), mac1) = GatedReads(Bearer(t), mac2)
           /\ GatedWrites(Bearer(t), mac1) = GatedWrites(Bearer(t), mac2)

\* a user with a token, a machine of another user with data, and a mac of
\* no machine: the user gets the same answer for both
C5_Witness ==
    \E m \in machines, u \in users :
        /\ u.id # m.owner_id
        /\ HasData(m)
        /\ \A n \in machines : n.mac_address # UnknownMac
        /\ \E t \in TokensOf(u) :
              GatedReads(Bearer(t), m.mac_address) = GatedReads(Bearer(t), UnknownMac)

(***************************************************************************)
(* The commit of a waiting request, as it would end in the current state.  *)
(***************************************************************************)
ConfigRequest(req) == req.op = "update_machine_config"
FlushOf(req) ==
    CASE req.op = "register_user" -> register_user_flush(req)
      [] MachineRequest(req) -> machine_flush(req)
      [] ConfigRequest(req) -> update_machine_config_flush(req)

\* a request whose lookup found no machine with its mac
Creating(req) == MachineRequest(req) /\ req.plan.kind = "insert"

(***************************************************************************)
(* C6.  Whatever the interleaving of logins and POST /machines for a mac   *)
(* that no machine had when they looked it up, no two machine rows have    *)
(* the same mac, and the commit of each such request either adds the row   *)
(* of the mac or fails (IntegrityError, no token) and leaves the machines  *)
(* as they are.                                                            *)
(***************************************************************************)
C6_AtMostOneRow ==
    \A m1 \in machines, m2 \in machines : m1.mac_address = m2.mac_address => m1 = m2

C6_OthersFail ==
    [][ \A req \in Waiting :
           Creating(req) /\ machine_commit(req) =>
              LET response == machine_flush(req).response
                  mac == req.plan.mac_address IN
              \/ /\ UniqueMacAddress(mac)
                 /\ response.status = 200
                 /\ \E n \in machines' :
                       /\ machines' = machines \cup {n}
                       /\ n \notin machines
                       /\ n.mac_address = mac /\ n.owner_id = req.user.id
              \/ /\ ~UniqueMacAddress(mac)
                 /\ response.status = 500 /\ response.error = "IntegrityError"
                 /\ Issued(response) = {}
                 /\ UNCHANGED <<machines, tokens>> ]_vars

\* C6: at most one row per mac, and a request that does not create it fails
C6_ConcurrentCreate == []C6_AtMostOneRow /\ C6_OthersFail

\* two requests looked up the same unknown mac, one of them has created the
\* row, and the other one still waits for its commit, which fails
C6_Witness ==
    \E req \in Waiting :
        /\ Creating(req)
        /\ ~UniqueMacAddress(req.plan.mac_address)
        /\ machine_flush(req).response.status = 500

(***************************************************************************)
(* C7.  A request that loses the race of a first write (same email, same   *)
(* new mac, first configuration of the same machine) ends with the error   *)
(* of an existing resource (400 raised by the handler), never with the     *)
(* exception of the storage.                                               *)
(***************************************************************************)
C7_RaceTranslated ==
    \A req \in Waiting :
        ~FlushOf(req).ok =>
           LET response == FlushOf(req).response IN
           /\ response.error = "HTTPException"
           /\ response.status = 400
           /\ response.detail \in {"Email already registered",
                                   "Machine belongs to another user"}

(***************************************************************************)
(* C8.  Whatever the interleaving of configuration writes, a machine has   *)
(* at most one configuration row, and the commit of a write that read no   *)
(* row either adds the row of the machine or fails and leaves the          *)
(* configurations as they are.                                             *)
(***************************************************************************)
C8_AtMostOneConfiguration ==
    \A c1 \in configurations, c2 \in configurations :
        c1.machine_id = c2.machine_id => c1 = c2

C8_FirstWrites ==
    [][ \A req \in Waiting :
           /\ ConfigRequest(req) /\ req.configuration = NoRow
           /\ update_machine_config_commit(req)
           => IF UniqueMachineId(req.machine.id)
              THEN \E c \in configurations' :
                      /\ configurations' = configurations \cup {c}
                      /\ c \notin configurations
                      /\ c.machine_id = req.machine.id
              ELSE UNCHANGED configurations ]_vars

\* C8: at most one configuration per machine, also when first writes race
C8_OneConfiguration == []C8_AtMostOneConfiguration /\ C8_FirstWrites

\* two first writes for the same machine: one has stored the row, the
\* other one read no row and still waits for its commit
C8_Witness ==
    \E req \in Waiting, c \in configurations :
        /\ ConfigRequest(req) /\ req.configuration = NoRow
        /\ c.machine_id = req.machine.id
        /\ ~update_machine_config_flush(req).ok

(***************************************************************************)
(* Configuration documents as the caller sent them and as the service      *)
(* returns them.                                                           *)
(***************************************************************************)
\* the document whose fields come under alias and under name at once
DocBoth(mac) ==
    [Nome |-> JStr("Desktop Principal"), MAC |-> JStr(mac), type |-> JStr("pc"),
     Notificar |-> JBool(TRUE), Frequency |-> JInt(30), iniciarSO |-> JBool(TRUE),
     status |-> JObj([CPU |-> JBool(TRUE)]), name |-> JStr("other"), frequency |-> JInt(15)]

\* the tag of the values of a declared type
TagOf(type) == IF type = "dict" THEN "obj" ELSE type

\* the answer of GET /machine/{mac} to the user of token t
ReadBack(t, mac) == get_machine_config_run(Bearer(t), mac)

\* a successful write of the document req.data
Written(req) ==
    /\ ConfigRequest(req)
    /\ update_machine_config_commit(req)
    /\ update_machine_config_flush(req).ok

C9_ReadBackOfLastWrite ==
    [][ \A req \in Waiting :
           Written(req) =>
              \A t \in TokensOf(req.user) :
                 LET got == ReadBack(t, req.machine.mac_address)' IN
                 /\ got.status = 200
                 /\ DOMAIN got.body.data = Aliases \cup (DOMAIN req.data \ UsedKeys(req.data))
                 /\ \A i \in FieldIndex :
                       LET f == ConfigFields[i]
                           sent == req.data[KeyOf(f, req.data)]
                           back == got.body.data[f.alias] IN
                       IF sent.t = TagOf(f.type) THEN back = sent
                                                 ELSE back.t = TagOf(f.type)
                 /\ \A k \in DOMAIN req.data \ UsedKeys(req.data) :
                       got.body.data[k] = req.data[k] ]_vars

C9_StaysUntilNextWrite ==
    [][ \/ UNCHANGED configurations
        \/ \E req \in Waiting : Written(req) ]_vars

KeysReturned(doc) == Aliases \cup (DOMAIN doc \ UsedKeys(doc))

C10_Accepted ==
    \A u \in users : \A t \in TokensOf(u), mac \in Macs :
        \A doc \in ConfigDocs({mac}) \cup {DocBoth(mac)} :
           LET run == update_machine_config_run(Bearer(t), doc) IN
           ~run.done => DOMAIN run.req.raw_payload = KeysReturned(doc)

C10_KeysByAlias ==
    [][ \A req \in Waiting :
           Written(req) =>
              /\ DOMAIN update_machine_config_flush(req).response.body.data =
                    KeysReturned(req.data)
              /\ \A c \in configurations' :
                    c.machine_id = req.machine.id =>
                       DOMAIN c.raw_payload = KeysReturned(req.data)
              /\ \A t \in TokensOf(req.user) :
                    DOMAIN ReadBack(t, req.machine.mac_address)'.body.data =
                       KeysReturned(req.data) ]_vars

RecordsOf(m) == {r \in monitoring_data : r.machine_id = m.id}
ReferenceIds == {r.reference_id : r \in monitoring_data}
\* the payloads an agent sends for mac, and the ones that name no mac
AgentPayloads(mac) ==
    {PayloadAgent(mac), PayloadFlat(mac), PayloadNested(mac), PayloadBadTime(mac),
     PayloadNumTime(mac)}
\* the machine of user u with mac
MachineOf(u, mac) == CHOOSE m \in machines : m.mac_address = mac /\ m.owner_id = u.id

(***************************************************************************)
(* C11.  Metric records are append-only.  A PUT /maquina/status that is    *)
(* answered 200 stores a new record, also when the machine has a record    *)
(* with the same payload: the records of the machine grow by exactly this  *)
(* one, and its reference id is the one of no record stored before.  No    *)
(* step removes a record or changes its timestamp, payload or reference    *)
(* id, and no two records share a reference id.                            *)
(***************************************************************************)
C11_EverySuccessStores ==
    \A u \in users : \A t \in TokensOf(u), mac \in Macs :
        \A d \in AgentPayloads(mac) :
           LET run == update_machine_status_run(Bearer(t), d) IN
           update_machine_status_response(run).status = 200 =>
              /\ ~run.done
              /\ run.req \notin monitoring_data
              /\ run.req.metrics = d
              /\ run.req.machine_id = MachineOf(u, mac).id
              /\ run.req.reference_id \notin ReferenceIds

C11_ReferenceIdsDiffer ==
    \A r1 \in monitoring_data, r2 \in monitoring_data :
        r1.reference_id = r2.reference_id => r1 = r2

C11_RecordsStay ==
    [][ /\ monitoring_data \subseteq monitoring_data'
        /\ \/ UNCHANGED monitoring_data
           \/ \E cr \in Credentials, d \in MetricsInputs.payloads :
                LET run == update_machine_status_run(cr, d) IN
                /\ update_machine_status(cr, d)
                /\ ~run.done
                /\ monitoring_data' = monitoring_data \cup {run.req}
                /\ \A m \in machines :
                      Cardinality(RecordsOf(m)') =
                         Cardinality(RecordsOf(m)) + (IF m.id = run.req.machine_id THEN 1 ELSE 0)
      ]_vars

\* C11: every successful PUT appends one record, and records never change
C11_AppendOnly ==
    [](C11_EverySuccessStores /\ C11_ReferenceIdsDiffer) /\ C11_RecordsStay

\* a machine with two records of the same payload
C11_Witness ==
    \E r1 \in monitoring_data, r2 \in monitoring_data :
        /\ r1 # r2
        /\ r1.machine_id = r2.machine_id
        /\ r1.metrics = r2.metrics
        /\ r1.reference_id # r2.reference_id

(***************************************************************************)
(* C12.  A payload of the owner whose timestamp is absent, is no string,   *)
(* or is a string that is no ISO-8601 timestamp, is answered 200 and       *)
(* stored with the current UTC time of the server.                         *)
(***************************************************************************)
NoTimestampPayloads(mac) == {PayloadFlat(mac), PayloadNumTime(mac), PayloadBadTime(mac)}

C12_ServerTimeWhenNoTimestamp ==
    \A u \in users : \A t \in TokensOf(u), m \in machines :
        m.owner_id = u.id =>
           \A d \in NoTimestampPayloads(m.mac_address) :
              LET run == update_machine_status_run(Bearer(t), d) IN
              /\ update_machine_status_response(run).status = 200
              /\ ~run.done
              /\ run.req.timestamp = utcnow

(***************************************************************************)
(* C13.  GET /metrics/{mac} of the owner with a limit from 0 to 1000       *)
(* returns records of that machine only, each at most once, every one      *)
(* within the bounds that are given (start <= t, t <= end), newest first;  *)
(* it returns as many as the limit allows, and every record in the window  *)
(* that it leaves out is no newer than the ones it returns.                *)
(***************************************************************************)
WindowTimes == {NoTime, 11}
GoodLimits == {0, 1, 2, 1000}

InWindow(r, start, end) ==
    /\ start # NoTime => r.timestamp >= start
    /\ end # NoTime => r.timestamp <= end

Min(a, b) == IF a < b THEN a ELSE b

C13_Query ==
    \A u \in users : \A t \in TokensOf(u), m \in machines :
        m.owner_id = u.id =>
           \A start \in WindowTimes, end \in WindowTimes, limit \in GoodLimits :
              LET matching == {MonitoringDataRead(r) :
                                  r \in {x \in RecordsOf(m) : InWindow(x, start, end)}} IN
              \A response \in
                    list_machine_metrics_run(Bearer(t), m.mac_address, start, end, limit) :
                 /\ response.status = 200
                 /\ LET q == response.body.records IN
                    /\ \A i \in DOMAIN q : q[i] \in matching
                    /\ \A i, j \in DOMAIN q : i # j => q[i] # q[j]
                    /\ \A i, j \in DOMAIN q : i < j => q[i].timestamp >= q[j].timestamp
                    /\ Len(q) = Min(limit, Cardinality(matching))
                    /\ \A r \in matching :
                          (\A i \in DOMAIN q : q[i] # r) =>
                             \A i \in DOMAIN q : r.timestamp <= q[i].timestamp

\* a machine with an older and a newer record: the query with limit 1
\* returns the newer one only
C13_Witness ==
    \E u \in users, m \in machines :
        /\ m.owner_id = u.id
        /\ \E r1 \in RecordsOf(m), r2 \in RecordsOf(m) :
              /\ r1.timestamp < r2.timestamp
              /\ \E t \in TokensOf(u) :
                    list_machine_metrics_run(Bearer(t), m.mac_address, NoTime, NoTime, 1) =
                       {Ok([kind |-> "records", records |-> <<MonitoringDataRead(r2)>>])}

(***************************************************************************)
(* C14.  Whatever the limit of the request (zero, negative, above the      *)
(* ceiling), a GET /metrics/{mac} that is answered 200 returns at most     *)
(* 1000 records, and at most limit records when limit is not negative.     *)
(* A machine with at most 1000 records cannot get more than 1000 of them;  *)
(* the formula is about the machines that have more.                       *)
(***************************************************************************)
HardCeiling == 1000
AnyLimits == {-1, 0, 1, 1000, 1001}

C14_HardCeiling ==
    \A u \in users : \A t \in TokensOf(u), m \in machines :
        m.owner_id = u.id /\ Cardinality(RecordsOf(m)) > HardCeiling =>
           \A limit \in AnyLimits :
              \A response \in
                    list_machine_metrics_run(Bearer(t), m.mac_address, NoTime, NoTime, limit) :
                 response.status = 200 =>
                    /\ Len(response.body.records) <= HardCeiling
                    /\ limit >= 0 => Len(response.body.records) <= limit

(***************************************************************************)
(* C15.  GET /metrics/{mac}/aggregate of the owner returns one result per  *)
(* requested key, in the order of the request: the i-th result has the     *)
(* i-th key, also when a key is repeated or when no record has it.         *)
(***************************************************************************)
KeySequences ==
    {<<"cpu">>, <<"disk", "cpu", "disk">>, <<"memory", "gpu", "memory">>, <<"gpu">>,
     <<"cpu", "memory", "disk">>}

C15_OneResultPerKey ==
    \A u \in users : \A t \in TokensOf(u), m \in machines :
        m.owner_id = u.id =>
           \A ks \in KeySequences :
              LET response == aggregate_metrics_run(Bearer(t), m.mac_address, ks) IN
              /\ response.status = 200
              /\ Len(response.body.aggregates) = Len(ks)
              /\ \A i \in DOMAIN ks : response.body.aggregates[i].metric = ks[i]

\* a machine with records, asked for a key twice and for a key of no record
C15_Witness ==
    \E u \in users, m \in machines :
        /\ m.owner_id = u.id
        /\ \E r \in RecordsOf(m) : "memory" \in DOMAIN r.metrics
        /\ \E t \in TokensOf(u) :
              LET a == aggregate_metrics_run(Bearer(t), m.mac_address,
                                             <<"memory", "gpu", "memory">>).body.aggregates IN
              Len(a) = 3 /\ a[2].empty /\ ~a[1].empty /\ a[3] = a[1]

(***************************************************************************)
(* C16.  A record whose value for key k is a nested document contributes   *)
(* to k at most one value: the number under usage, else the number under   *)
(* percent, else the number under value, and nothing when none of the      *)
(* three is a number; {percent: 10, usage: 20} contributes 20.  Hence the  *)
(* average of k counts at most one value per record of the machine.        *)
(***************************************************************************)
\* the nested documents with usage, percent and value absent, 10, 20 or "high"
FieldValues == {JNull, JInt(10), JInt(20), JStr("high")}
NestedDocument(usage, percent, value) ==
    LET given == [usage |-> usage, percent |-> percent, value |-> value] IN
    [k \in {x \in DOMAIN given : given[x] # JNull} |-> given[k]]

C16_FirstMatch ==
    \A usage \in FieldValues, percent \in FieldValues, value \in FieldValues :
        LET metrics == [disk |-> JObj(NestedDocument(usage, percent, value))]
            expected == IF usage.t = "int" THEN <<usage.v>>
                        ELSE IF percent.t = "int" THEN <<percent.v>>
                        ELSE IF value.t = "int" THEN <<value.v>>
                        ELSE <<>> IN
        Contribution(metrics, "disk") = expected

C16_OneValuePerRecord ==
    \A u \in users : \A t \in TokensOf(u), m \in machines :
        m.owner_id = u.id =>
           \A k \in {"cpu", "memory", "disk"} :
              LET a == aggregate_metrics_run(Bearer(t), m.mac_address, <<k>>).body.aggregates[1] IN
              ~a.empty =>
                 /\ a.average.count <= Cardinality(RecordsOf(m))
                 /\ a.average.count =
                       Cardinality({r \in RecordsOf(m) :
                                       \/ Get(r.metrics, k).t = "int"
                                       \/ /\ Get(r.metrics, k).t = "obj"
                                          /\ \E c \in {"usage", "percent", "value"} :
                                                Get(Get(r.metrics, k).v, c).t = "int"})

\* C16: the first numeric candidate of a nested document, one value per record
C16_NestedPriority == C16_FirstMatch /\ C16_OneValuePerRecord

\* a stored record with disk = {percent: 10, usage: 20, value: 5}, whose
\* machine has disk aggregated to 20
C16_Witness ==
    \E u \in users, m \in machines :
        /\ m.owner_id = u.id
        /\ RecordsOf(m) # {}
        /\ \A r \in RecordsOf(m) : r.metrics = PayloadNested(m.mac_address)
        /\ \E t \in TokensOf(u) :
              LET a == aggregate_metrics_run(Bearer(t), m.mac_address, <<"disk">>).body.aggregates[1] IN
              ~a.empty /\ a.minimum = 20 /\ a.maximum = 20

(***************************************************************************)
(* C17.  For a key k, the aggregate of the owner's machine has no minimum, *)
(* maximum and average when no record of the machine contributes to k.     *)
(* Otherwise its minimum and maximum are the least and the greatest of the *)
(* values that the records of this machine contribute (every record of the *)
(* machine, whatever its timestamp, and no record of another machine), and *)
(* its average is their sum divided by their number, so that               *)
(* minimum <= average <= maximum.                                          *)
(***************************************************************************)
AggregateKeys == {"cpu", "memory", "disk", "gpu", "mac_address"}

\* the number a record has for k: the number itself, or the first number of
\* usage, percent, value in a nested document
NumbersOf(r, k) ==
    LET value == Get(r.metrics, k)
        nested(c) == Get(value.v, c) IN
    IF value.t = "int" THEN {value.v}
    ELSE IF value.t # "obj" THEN {}
    ELSE IF nested("usage").t = "int" THEN {nested("usage").v}
    ELSE IF nested("percent").t = "int" THEN {nested("percent").v}
    ELSE IF nested("value").t = "int" THEN {nested("value").v}
    ELSE {}
NumberOf(r, k) == CHOOSE v \in NumbersOf(r, k) : TRUE

RECURSIVE Total(_, _)
Total(records, k) ==
    IF records = {} THEN 0
    ELSE LET r == CHOOSE x \in records : TRUE IN NumberOf(r, k) + Total(records \ {r}, k)

C17_MinMaxMean ==
    \A u \in users : \A t \in TokensOf(u), m \in machines :
        m.owner_id = u.id =>
           \A k \in AggregateKeys :
              LET a == aggregate_metrics_run(Bearer(t), m.mac_address, <<k>>).body.aggregates[1]
                  contributing == {r \in RecordsOf(m) : NumbersOf(r, k) # {}} IN
              /\ a.metric = k
              /\ a.empty <=> contributing = {}
              /\ ~a.empty =>
                    /\ \E r \in contributing : NumberOf(r, k) = a.minimum
                    /\ \E r \in contributing : NumberOf(r, k) = a.maximum
                    /\ \A r \in contributing :
                          a.minimum <= NumberOf(r, k) /\ NumberOf(r, k) <= a.maximum
                    /\ a.average.count = Cardinality(contributing)
                    /\ a.average.sum = Total(contributing, k)
                    /\ a.minimum * a.average.count <= a.average.sum
                    /\ a.average.sum <= a.maximum * a.average.count

\* a machine whose records contribute different values to cpu, and a key
\* that none of its records has
C17_Witness ==
    \E u \in users, m \in machines :
        /\ m.owner_id = u.id
        /\ \E t \in TokensOf(u) :
              LET a == aggregate_metrics_run(Bearer(t), m.mac_address,
                                             <<"cpu", "gpu">>).body.aggregates IN
              /\ ~a[1].empty /\ a[1].minimum < a[1].maximum
              /\ a[1].average.count >= 2
              /\ a[2].empty

(***************************************************************************)
(* C18.  A successful login stores for the presented mac, and returns with *)
(* the token, the type "server" when the OS descriptor c of the request    *)
(* has the substring "server" in any letter case and "pc" otherwise,       *)
(* whatever type the machine had: both for the login that returns without  *)
(* a commit and for the login that answers after its commit.               *)
(***************************************************************************)
ServerLetters == << {"s", "S"}, {"e", "E"}, {"r", "R"}, {"v", "V"}, {"e", "E"}, {"r", "R"} >>
TypeOfDescriptor(c) ==
    IF \E i \in 0..(Len(c) - 6) : \A j \in 1..6 : c[i + j] \in ServerLetters[j]
    THEN "server" ELSE "pc"

\* what a login answers and the machines it leaves, were it to end now
LoginOutcome(run) ==
    IF run.done THEN [response |-> run.response, machines |-> machines]
    ELSE LET flush == machine_flush(run.req) IN
         [response |-> flush.response,
          machines |-> IF flush.ok
                       THEN {m \in machines : m.id # flush.row.id} \cup {flush.row}
                       ELSE machines]

C18_TypeAsDerived(outcome, mac, c) ==
    outcome.response.status = 200 =>
        /\ outcome.response.body.type = TypeOfDescriptor(c)
        /\ \A m \in outcome.machines :
              m.mac_address = mac => m.type = TypeOfDescriptor(c)

C18_TypeFromDescriptor ==
    \* a login that starts in this state
    /\ \A u \in users, n \in ReloginNames, c \in OsDescriptors :
          LET run == login_run(u.email, "s3cret", "AA:BB", n, c) IN
          run.done => C18_TypeAsDerived(LoginOutcome(run), "AA:BB", c)
    \* a login that waits for its commit in this state
    /\ \A req \in Waiting :
          req.op = "login" =>
             \A c \in OsDescriptors :
                MachineTypeOf(c) = req.plan.type =>
                   C18_TypeAsDerived(LoginOutcome(Commit(req)),
                                     (machine_flush(req)).row.mac_address, c)

(***************************************************************************)
(* C19.  A payload from which no MAC can be derived (machine_info absent,  *)
(* not a document, or a document without mac, and no mac_address) is       *)
(* refused with 400 "MAC address missing in payload" for every             *)
(* authenticated client, and the request stores no record.                 *)
(***************************************************************************)
C19_MissingField ==
    \A t \in tokens : \A d \in NoMacPayloads :
        get_current_user(Bearer(t)).ok =>
           LET run == update_machine_status_run(Bearer(t), d) IN
           /\ run.done
           /\ run.response = HTTPException(400, "MAC address missing in payload")

(***************************************************************************)
(* C20.  A request to an operation behind get_current_user (machines,      *)
(* configuration, metrics) with no credentials, a token that does not      *)
(* verify, an expired token, a token without sub, or a token whose sub is  *)
(* no user is answered 401 whatever else it carries: a mac of a machine,   *)
(* of another user's machine or of no machine, a body or a query that the  *)
(* validation would refuse.  Its step changes nothing: no row is written   *)
(* and no request waits for a commit.                                      *)
(***************************************************************************)
RejectedCredentials ==
    {NoCredentials, Bearer(GarbageToken), Bearer(NoSubjectToken)}
       \cup {Bearer(Expired(t)) : t \in tokens \cup {StrangerToken}}
       \cup {Bearer(t) : t \in {x \in {StrangerToken} : \A u \in users : u.email # x.sub}}

Is401(response) ==
    /\ response.status = 401
    /\ response.error = "HTTPException"
    /\ response.body = NoBody

RequestNames == {"", "Desktop-01"}
RequestDocs == ConfigDocs(AllMacs)
RequestPayloads == MetricPayloads(AllMacs) \cup NoMacPayloads \cup {PayloadBadTime("AA:BB")}

C20_Answered401 ==
    \A cr \in RejectedCredentials :
        /\ Is401(list_machines_run(cr))
        /\ \A d \in RequestDocs :
              LET run == update_machine_config_run(cr, d) IN run.done /\ Is401(run.response)
        /\ \A d \in RequestPayloads :
              LET run == update_machine_status_run(cr, d) IN run.done /\ Is401(run.response)
        /\ \A m \in AllMacs :
              /\ \A n \in RequestNames, ty \in MachineTypes :
                    LET run == register_machine_run(cr, m, n, ty) IN
                    run.done /\ Is401(run.response)
              /\ Is401(get_machine_config_run(cr, m))
              /\ \A ks \in KeySequences : Is401(aggregate_metrics_run(cr, m, ks))
              /\ \A st \in WindowTimes, en \in WindowTimes, l \in AnyLimits :
                    \A response \in list_machine_metrics_run(cr, m, st, en, l) :
                       Is401(response)

C20_ChangesNothing ==
    [][ \/ UNCHANGED vars
        \/ \A cr \in RejectedCredentials :
              ~ \/ \E m \in AllMacs, n \in RequestNames, ty \in MachineTypes :
                      register_machine(1, cr, m, n, ty)
                \/ \E d \in RequestDocs : update_machine_config(1, cr, d)
                \/ \E d \in RequestPayloads : update_machine_status(cr, d) ]_vars

C20_Unauthorized == []C20_Answered401 /\ C20_ChangesNothing

\* the owner of a machine with data reads it with their token, is refused
\* with the same token once it has expired, and eve, whose address is the sub
\* of a signed token, is no user
C20_Witness ==
    \E m \in machines : \E t \in TokensOf(UserOf(m.owner_id)) :
        /\ HasData(m)
        /\ \A u \in users : u.email # StrangerToken.sub
        /\ get_machine_config_run(Bearer(t), m.mac_address).status = 200
        /\ get_machine_config_run(Bearer(Expired(t)), m.mac_address) =
              HTTPException(401, "Invalid token")
        /\ get_machine_config_run(Bearer(StrangerToken), m.mac_address) =
              HTTPException(401, "User not found")
        /\ get_machine_config_run(Bearer(NoSubjectToken), m.mac_address) =
              HTTPException(401, "Invalid token payload")

(***************************************************************************)
(* C21.  In the aggregate of key k a record counts only when its value for *)
(* k is a number or a document with a number under usage, percent or       *)
(* value.  A record whose value for k is missing, null, a string, a        *)
(* boolean, a list or a document without such a number adds nothing: the   *)
(* aggregate has as many values as there are records with a number, and is *)
(* absent when there is none; the request is answered 200.                 *)
(***************************************************************************)
UntypedKeys == {"cpu", "memory", "disk", "gpu", "net", "load", "swap"}

C21_OnlyNumbersContribute ==
    \A u \in users : \A t \in TokensOf(u), m \in machines :
        m.owner_id = u.id =>
           \A k \in UntypedKeys :
              LET response == aggregate_metrics_run(Bearer(t), m.mac_address, <<k>>)
                  a == response.body.aggregates[1]
                  contributing == {r \in RecordsOf(m) : NumbersOf(r, k) # {}} IN
              /\ response.status = 200
              /\ a.empty <=> contributing = {}
              /\ ~a.empty => a.average.count = Cardinality(contributing)

(***************************************************************************)
(* C22.  A login whose email is no user's, or whose password is not the    *)
(* one the user registered with, is answered 401 "Invalid credentials"     *)
(* whatever mac, username and OS descriptor it carries, and its step       *)
(* changes nothing: no machine is created or renamed, no type changes, no  *)
(* token is issued and no request waits for a commit.                      *)
(***************************************************************************)
LoginEmails == Emails \cup {"nobody@example.com"}

\* the email is no user's, or the password is not the user's
BadLogin(email, password) ==
    \A u \in users : u.email = email => u.hashed_password # <<"bcrypt", password>>

InvalidCredentials == HTTPException(401, "Invalid credentials")

C22_Refused ==
    \A e \in LoginEmails, p \in LoginPasswords :
        BadLogin(e, p) =>
           \A mac \in AllMacs, n \in ReloginNames, c \in OsDescriptors :
              login_run(e, p, mac, n, c) = Return(InvalidCredentials)

C22_RegistryUntouched ==
    [][ \/ UNCHANGED vars
        \/ \A e \in LoginEmails, p \in LoginPasswords :
              ~ /\ BadLogin(e, p)
                /\ \E mac \in AllMacs, n \in ReloginNames, c \in OsDescriptors :
                      login(1, e, p, mac, n, c) ]_vars

C22_InvalidCredentials == []C22_Refused /\ C22_RegistryUntouched

\* a user with a machine: the login with the wrong password and another
\* name and type for it is refused, the same login with the right password
\* would write, and the login of an address that is no user's is refused
C22_Witness ==
    \E m \in machines :
        LET u == UserOf(m.owner_id)
            c == IF m.type = "pc" THEN <<"S","E","R","V","E","R">> ELSE <<"w","i","n","-","p","c">> IN
        /\ login_run(u.email, "wrong", m.mac_address, "Desktop-02", c) =
              Return(InvalidCredentials)
        /\ ~login_run(u.email, "s3cret", m.mac_address, "Desktop-02", c).done
        /\ \E e \in Emails :
              /\ \A x \in users : x.email # e
              /\ login_run(e, "s3cret", m.mac_address, m.name, c) = Return(InvalidCredentials)

(***************************************************************************)
(* C23.  A POST /update_confg_maquina changes nothing but the              *)
(* configuration of the machine that the MAC of its document names: the    *)
(* step of the request changes no row, and the step of its commit leaves   *)
(* every machine row as it was (name, type and owner of the named machine  *)
(* too, whatever Nome and type of the document), every configuration of    *)
(* another machine, every metric record and every user.                    *)
(***************************************************************************)
\* the MAC of a document, under its alias or under its name
DocMac(doc) == IF "MAC" \in DOMAIN doc THEN doc["MAC"].v ELSE doc["mac"].v
NamedBy(doc) == {m \in machines : m.mac_address = DocMac(doc)}
OfOthers(rows, doc) == {c \in rows : \A m \in NamedBy(doc) : c.machine_id # m.id}

C23_OnlyConfiguration ==
    [][ \/ UNCHANGED store
        \/ \A req \in Waiting :
              ConfigRequest(req) /\ pending' = Done(req) =>
                 /\ UNCHANGED <<users, machines, monitoring_data>>
                 /\ OfOthers(configurations', req.data) = OfOthers(configurations, req.data) ]_vars

C23_RequestWritesNothing ==
    [][ \/ UNCHANGED store
        \/ \A cr \in Credentials, d \in ConfigDocs(AllMacs) :
              ~update_machine_config(1, cr, d) ]_vars

C23_Frame == C23_OnlyConfiguration /\ C23_RequestWritesNothing

\* the configuration of a machine was the last write, with a Nome and a
\* type that are not the machine's, and the user's other machine has data
C23_Witness ==
    \E m \in machines, other \in machines, c \in configurations :
        /\ c.machine_id = m.id
        /\ c.updated_at = clock
        /\ c.raw_payload["Nome"].v # m.name
        /\ c.raw_payload["type"].v # m.type
        /\ m.updated_at < c.updated_at
        /\ other.id # m.id /\ other.owner_id = m.owner_id
        /\ HasData(other)

(***************************************************************************)
(* C24.  Two tokens of the same user, whatever the machines of the logins  *)
(* that issued them, get the same outcome for every request: the same      *)
(* response, or the same write waiting for its commit.  Hence the token of *)
(* a login for machine A passes the ownership gate for every machine of    *)
(* its user.                                                               *)
(***************************************************************************)
\* the outcome of every request of the input domains with these credentials
Outcomes(cr) ==
    [machines |-> list_machines_run(cr),
     register |-> [q \in AllMacs \X RequestNames \X MachineTypes |->
                      register_machine_run(cr, q[1], q[2], q[3])],
     config |-> [d \in RequestDocs |-> update_machine_config_run(cr, d)],
     read |-> [m \in AllMacs |-> get_machine_config_run(cr, m)],
     status |-> [d \in RequestPayloads |-> update_machine_status_run(cr, d)],
     list |-> [q \in AllMacs \X WindowTimes \X WindowTimes \X AnyLimits |->
                  list_machine_metrics_run(cr, q[1], q[2], q[3], q[4])],
     aggregate |-> [q \in AllMacs \X KeySequences |-> aggregate_metrics_run(cr, q[1], q[2])]]

C24_SubjectOnly ==
    \A u \in users : \A t1 \in TokensOf(u), t2 \in TokensOf(u) :
        /\ Outcomes(Bearer(t1)) = Outcomes(Bearer(t2))
        /\ \A m \in machines :
              m.owner_id = u.id =>
                 /\ get_machine_config_run(Bearer(t1), m.mac_address) =
                       (IF ConfigOf(m) = NoRow THEN HTTPException(404, "Configuration not found")
                        ELSE Ok(ConfigBody(ConfigOf(m))))
                 /\ aggregate_metrics_run(Bearer(t1), m.mac_address, <<"cpu">>).status = 200
                 /\ ~update_machine_status_run(Bearer(t1), PayloadFlat(m.mac_address)).done

\* a user with the tokens of two logins for two machines, and a machine
\* with a configuration and records that the token of the other login reads
C24_Witness ==
    \E a \in machines, b \in machines :
        /\ a.owner_id = b.owner_id /\ a.id # b.id
        /\ ConfigOf(b) # NoRow /\ RecordsOf(b) # {}
        /\ \E ta \in tokens, tb \in tokens :
              /\ ta.machine_mac = a.mac_address /\ tb.machine_mac = b.mac_address
              /\ ta.user_id = a.owner_id /\ tb.user_id = a.owner_id
              /\ get_machine_config_run(Bearer(ta), b.mac_address).status = 200
              /\ ~aggregate_metrics_run(Bearer(ta), b.mac_address, <<"cpu">>).body.aggregates[1].empty

(***************************************************************************)
(* C25 as stated.  In every window of rate_limit_window_seconds the        *)
(* limiter gives at most rate_limit_requests requests of an identifier to  *)
(* the application; a request answered 429 leaves the buckets as they      *)
(* were; a request of one identifier leaves the bucket of every other one  *)
(* as it was.                                                              *)
(***************************************************************************)
\* the requests of identifier among those of log that the application got
\* in the window that starts at instant from
InWindowFrom(log, identifier, from) ==
    {i \in DOMAIN log : /\ log[i].identifier = identifier
                        /\ from <= log[i].at
                        /\ log[i].at < from + rate_limit_window_seconds}

C25_RejectedNotRecorded ==
    \A identifier \in Identifiers, path \in Paths :
        LET run == rate_limit_middleware_run(identifier, path) IN
        /\ run.status = "429" => run.buckets = _rate_buckets
        /\ \A other \in Identifiers \ {identifier} :
              run.buckets[other] = _rate_buckets[other]

C25_AtMostLimitPassed ==
    /\ \A identifier \in Identifiers, from \in 0..MaxNow :
          Cardinality(InWindowFrom(passed, identifier, from)) <= rate_limit_requests
    /\ C25_RejectedNotRecorded

(***************************************************************************)
(* C25, amended.  The bound is on the requests whose path does not start   *)
(* with /docs or /openapi: of these the limiter gives at most              *)
(* rate_limit_requests of an identifier to the application in every        *)
(* window, and a request to a path that starts with /docs or /openapi is   *)
(* always given to the application and never counted.  A counted request   *)
(* is answered 429 exactly when rate_limit_requests counted requests of    *)
(* its identifier were given to the application less than a window ago,    *)
(* whatever requests were answered 429 and whatever the other identifiers  *)
(* sent; a 429 leaves the buckets as they were.                            *)
(***************************************************************************)
Counted == SelectSeq(passed, LAMBDA request : request.path \notin ExemptPaths)

\* the counted requests of identifier that the application got less than a
\* window ago
RecentlyPassed(identifier) ==
    {i \in DOMAIN Counted : /\ Counted[i].identifier = identifier
                            /\ now - Counted[i].at < rate_limit_window_seconds}

C25_LimitOnCounted ==
    /\ \A identifier \in Identifiers, from \in 0..MaxNow :
          Cardinality(InWindowFrom(Counted, identifier, from)) <= rate_limit_requests
    /\ \A identifier \in Identifiers :
          /\ \A path \in Paths \ ExemptPaths :
                rate_limit_middleware_run(identifier, path).status = "429"
                   <=> Cardinality(RecentlyPassed(identifier)) >= rate_limit_requests
          /\ \A path \in ExemptPaths :
                rate_limit_middleware_run(identifier, path) =
                   [status |-> "call_next", buckets |-> _rate_buckets]
    /\ C25_RejectedNotRecorded

\* one client is blocked and was blocked an instant ago, its request to
\* /docs is given to the application, and the other client is not blocked
C25_Witness ==
    \E identifier \in Identifiers, other \in Identifiers :
        /\ rate_limit_middleware_run(identifier, "/api/machines").status = "429"
        /\ Cardinality({i \in DOMAIN Counted : /\ Counted[i].identifier = identifier
                                               /\ Counted[i].at < now}) >= rate_limit_requests
        /\ rate_limit_middleware_run(identifier, "/docs").status = "call_next"
        /\ rate_limit_middleware_run(other, "/api/machines").status = "call_next"
        /\ \E i \in DOMAIN Counted : Counted[i].identifier = other

====
